---- MODULE Spec2Model ----
(***************************************************************************)
(* Behaviour of the code emitted by the Rust generator                     *)
(* (compiler/cpp/src/thrift/generate/t_rs_generator.cc).                   *)
(*                                                                         *)
(* The generator prints Rust text; the model gives the meaning of the text *)
(* it prints for a given IDL struct: the emitted write_to_out_protocol is  *)
(* an operator from a value to a field stream, the emitted                 *)
(* read_from_in_protocol an operator from a field stream to the set of     *)
(* results the read can return.                                            *)
(***************************************************************************)
EXTENDS Integers, Sequences, FiniteSets, TLC

VARIABLES pc,          \* position of the scenario
          tstruct,     \* the IDL struct: [name, members (sorted by key)]
          struct_type, \* e_struct_type the struct is rendered with
          self,        \* the Rust value handed to write_to_out_protocol
          wire,        \* the field stream between the two protocols
          origin,      \* how the stream was made: "none", "written", "injected", "forged"
          ret,         \* outcome of read_from_in_protocol
          tfunc,           \* the IDL function of the service call
          sequence_number, \* _sequence_number of the client
          c_out,           \* messages the client flushed to its output protocol
          handler_ret,     \* what the handler returned to the processor
          o_prot,          \* messages the processor flushed to its output protocol
          result,          \* the result struct the client read
          client_ret,      \* what the client call returned
          i_ops,           \* calls the client made on its input protocol, in order
          p_ret,           \* what the per-function process function returned
          o_ops,           \* calls the client made on its output protocol, in order
          ncalls,          \* service calls made on the client so far
          tservice,        \* the IDL service a processor is emitted for
          message_ident,   \* the message header process read
          invoked,         \* the process functions process invoked, in order
          res,             \* the value of the dispatch match of process
          program,         \* the IDL tree handed to the generator
          program0,        \* the IDL tree as the parser built it
          emitted,         \* what the generator emitted so far, an entry per generate_ call
          t_type,          \* the IDL type a render function is called with
          read_call,       \* the read render_type_sync_read emitted for t_type
          rust_type,       \* to_rust_type(t_type)
          const_shape,     \* how generate_const emitted a constant of t_type
          field_ids,       \* two field ids rust_safe_field_id is called with
          safe_ids,        \* what the two calls returned
          derives,         \* the derive attribute render_struct_definition emitted
          stopping_,       \* TNamedPipeServer::stopping_
          cached_client_,  \* the TPipe held in cached_client_, NoClient for none
          Pipe_,           \* the handle in Pipe_, INVALID_HANDLE_VALUE for none
          pipe_protect_,   \* the thread that holds the critical section, "free" for none
          connectOverlap_, \* [h, success, last_error] of the connect work item
          cancelOverlap_,  \* [h] of the cancel work item
          workList,        \* work items the submission thread has not processed yet
          io,              \* per pipe instance, the state of its connection
          a_pc,            \* where the thread that calls acceptImpl is
          a_client,        \* the local client of acceptImpl and what it ends with
          i_pc,            \* where the thread that calls interrupt is
          accept_ret,      \* how the last acceptImpl call ended
          returned,        \* the clients acceptImpl calls returned, in order
          unlocked,        \* accesses to cached_client_ and Pipe_ made without the lock
          counters,        \* pipe instances, clients, acceptImpl and interrupt calls so far
          armed,           \* what initiateNamedConnect did in the current acceptImpl call
          watch            \* the acceptImpl call an interrupt found blocked, and its end

codecVars == <<tstruct, struct_type, self, wire, ret>>
rpcVars == <<tfunc, sequence_number, c_out, handler_ret, o_prot, result, client_ret, i_ops, p_ret,
            o_ops, ncalls>>
dispatchVars == <<tservice, message_ident, invoked, res>>
genVars == <<program, program0, emitted>>
fnVars == <<t_type, read_call, rust_type, const_shape, field_ids, safe_ids, derives>>
pipeVars == <<stopping_, cached_client_, Pipe_, pipe_protect_, connectOverlap_, cancelOverlap_,
             workList, io, a_pc, a_client, i_pc, accept_ret, returned, unlocked, counters,
             armed, watch>>
vars == <<pc, origin, codecVars, rpcVars, dispatchVars, genVars, fnVars, pipeVars>>

----------------------------------------------------------------------------
(* Bounds of the input domain *)

MaxFields == 2      \* members per struct
MaxVal == 1         \* payload values are 0..MaxVal
MaxWire == 2        \* fields of a forged stream
MaxXceptions == 2   \* exceptions a function declares
MaxDepth == 2       \* services of an extends chain
MaxFuncs == 2       \* functions a service declares
MaxCalls == 2       \* service calls made on one client
MaxTypeDepth == 2   \* typedef and container layers around a type
MaxId == 2          \* small field ids are -MaxId..MaxId
MaxPipes == 3       \* pipe instances the server can create (maxconns_)
MaxAccepts == 3     \* acceptImpl calls
MaxInterrupts == 1  \* interrupt calls

KeySet == {-1, 0, 2}          \* declared field ids: a negative one, zero, a positive one
UnknownKeySet == {-5, 7}      \* field ids no struct declares
TypeSet == {"i32", "struct"}  \* one base type, one type with its own codec
ReqSet == {"T_REQUIRED", "T_OPTIONAL", "T_OPT_IN_REQ_OUT"}
ValueSet == 0..MaxVal
XKeySet == {-2, -1, 1}        \* ids of declared exceptions
XTypeSet == {"E1", "E2"}      \* exception types a function can declare

----------------------------------------------------------------------------
(* Option<T> of the emitted code *)

None == <<>>
Some(x) == <<x>>
is_some(o) == o # <<>>
is_none(o) == o = <<>>
unwrap(o) == o[1]

----------------------------------------------------------------------------
(* Generator helpers *)

is_optional(req) == req \in {"T_OPTIONAL", "T_OPT_IN_REQ_OUT"}

actual_field_req(tfield, stype) ==
  IF stype = "T_ARGS" THEN "T_REQUIRED" ELSE tfield.req

DigitChars == <<"0", "1", "2", "3", "4", "5", "6", "7", "8", "9">>

abs(id) == IF id < 0 THEN -id ELSE id

RECURSIVE to_string(_)
to_string(n) ==
  IF n < 10 THEN <<DigitChars[n + 1]>>
  ELSE to_string(n \div 10) \o <<DigitChars[(n % 10) + 1]>>

rust_safe_field_id(id) ==
  LET id_str == to_string(abs(id))
  IN IF id >= 0 THEN id_str ELSE <<"n", "e", "g">> \o id_str

struct_field_read_temp_variable(tfield) ==
  <<"f", "_">> \o rust_safe_field_id(tfield.key)

to_rust_field_type_enum(ttype) ==
  CASE ttype = "string" -> "TType::String"
    [] ttype = "binary" -> "TType::String"
    [] ttype = "uuid" -> "TType::Uuid"
    [] ttype = "bool" -> "TType::Bool"
    [] ttype = "i8" -> "TType::I08"
    [] ttype = "i16" -> "TType::I16"
    [] ttype = "i32" -> "TType::I32"
    [] ttype = "i64" -> "TType::I64"
    [] ttype = "double" -> "TType::Double"
    [] ttype = "enum" -> "TType::I32"
    [] ttype \in {"struct", "xception"} -> "TType::Struct"
    [] ttype = "map" -> "TType::Map"
    [] ttype = "set" -> "TType::Set"
    [] ttype = "list" -> "TType::List"

\* the zero of every base and container type is the payload 0
opt_in_req_out_value(ttype) ==
  IF ttype \in {"enum", "struct", "xception"} THEN None ELSE Some(0)

----------------------------------------------------------------------------
(* Rust match on the field id, as the emitted arms decide it *)

IsIntLiteral(pat) ==
  \A i \in 1..Len(pat) : \E d \in 1..10 : pat[i] = DigitChars[d]

\* an integer literal pattern matches the equal id; any other arm label is an
\* identifier pattern, which binds whatever the scrutinee is
PatternMatches(pat, field_id) ==
  IF IsIntLiteral(pat)
  THEN field_id >= 0 /\ pat = to_string(field_id)
  ELSE TRUE

\* index of the first arm that matches, 0 for the `_` arm
MatchArm(members, field_id) ==
  LET hits == {i \in 1..Len(members) :
                 PatternMatches(rust_safe_field_id(members[i].key), field_id)}
  IN IF hits = {} THEN 0 ELSE CHOOSE i \in hits : \A j \in hits : i <= j

----------------------------------------------------------------------------
(* The protocol: a struct on the wire is its fields followed by Stop *)

WField(id, ty, val) == [id |-> id, ty |-> ty, val |-> val]
Stop == [id |-> 0, ty |-> "TType::Stop", val |-> 0]

\* i_prot.read_<T>() on the payload of field w: the payload as written when w
\* carries T's wire type; bytes of another type decode to any value of T or
\* to a protocol error
TypeRead(ttype, w) ==
  IF w.ty = to_rust_field_type_enum(ttype)
  THEN {[ok |-> TRUE, val |-> w.val]}
  ELSE {[ok |-> FALSE, val |-> 0]} \cup {[ok |-> TRUE, val |-> x] : x \in ValueSet}

----------------------------------------------------------------------------
(* Emitted write_to_out_protocol of a struct *)

render_struct_field_sync_write(field_var, tfield, req) ==
  LET hdr(x) == WField(tfield.key, to_rust_field_type_enum(tfield.type), x)
  IN IF is_optional(req)
     THEN IF is_some(field_var) THEN <<hdr(unwrap(field_var))>> ELSE <<>>
     ELSE <<hdr(field_var)>>

RECURSIVE WriteMembers(_, _, _, _)
WriteMembers(members, stype, value, i) ==
  IF i > Len(members) THEN <<>>
  ELSE render_struct_field_sync_write(value[i], members[i],
                                      actual_field_req(members[i], stype))
       \o WriteMembers(members, stype, value, i + 1)

render_struct_sync_write(ts, stype, value) ==
  WriteMembers(ts.members, stype, value, 1) \o <<Stop>>

----------------------------------------------------------------------------
(* Emitted read_from_in_protocol of a struct *)

InitialSlots(members, stype) ==
  [i \in 1..Len(members) |->
     IF actual_field_req(members[i], stype) = "T_OPT_IN_REQ_OUT"
     THEN opt_in_req_out_value(members[i].type)
     ELSE None]

\* the loop: the set of <<slots, skipped ids, error>> it can end with
RECURSIVE ReadLoop(_, _, _, _)
ReadLoop(members, slots, skipped, rest) ==
  IF rest = <<>>
  THEN {[slots |-> slots, skipped |-> skipped, err |-> "read_field_begin"]}
  ELSE LET w == Head(rest)
           arm == IF members = <<>> THEN 0 ELSE MatchArm(members, w.id)
       IN IF w.ty = "TType::Stop"
          THEN {[slots |-> slots, skipped |-> skipped, err |-> ""]}
          ELSE IF arm = 0
          THEN ReadLoop(members, slots, Append(skipped, w.id), Tail(rest))
          ELSE UNION {IF r.ok
                      THEN ReadLoop(members, [slots EXCEPT ![arm] = Some(r.val)],
                                    skipped, Tail(rest))
                      ELSE {[slots |-> slots, skipped |-> skipped, err |-> "read"]}
                      : r \in TypeRead(members[arm].type, w)}

\* members verify_required_field_exists is emitted for and whose slot is empty
MissingRequired(members, stype, slots) ==
  {i \in 1..Len(members) :
     /\ ~is_optional(actual_field_req(members[i], stype))
     /\ is_none(slots[i])}

Materialize(members, stype, slots) ==
  [i \in 1..Len(members) |->
     IF is_optional(actual_field_req(members[i], stype))
     THEN slots[i]
     ELSE unwrap(slots[i])]

\* what a read returns: Ok(val), or a protocol error; missing is the member
\* verify_required_field_exists reported, msg the text of a union error, and
\* skipped the ids i_prot.skip was called for, in order
Result(kind, val, missing, msg, skipped) ==
  [kind |-> kind, val |-> val, missing |-> missing, msg |-> msg, skipped |-> skipped]

render_struct_sync_read(ts, stype, stream) ==
  {LET missing == MissingRequired(ts.members, stype, l.slots)
       first == CHOOSE i \in missing : \A j \in missing : i <= j
   IN IF l.err # ""
      THEN Result("Err::Protocol", <<>>, 0, l.err, l.skipped)
      ELSE IF missing # {}
      THEN Result("Err::Protocol", <<>>, first, "missing required field", l.skipped)
      ELSE Result("Ok", Materialize(ts.members, stype, l.slots), 0, "", l.skipped)
   : l \in ReadLoop(ts.members, InitialSlots(ts.members, stype), <<>>, stream)}

----------------------------------------------------------------------------
(* Emitted codec of a union; a value is the variant [arm, val] *)

Variant(arm, val) == [arm |-> arm, val |-> val]

render_union_sync_write(ts, variant) ==
  render_struct_field_sync_write(variant.val, ts.members[variant.arm], "T_REQUIRED")
  \o <<Stop>>

\* the loop: ret is set by the first known field only, every field is counted
RECURSIVE UnionReadLoop(_, _, _, _, _)
UnionReadLoop(members, r, received_field_count, skipped, rest) ==
  LET end(e) == {[ret |-> r, count |-> received_field_count,
                  skipped |-> skipped, err |-> e]}
  IN IF rest = <<>> THEN end("read_field_begin")
     ELSE LET w == Head(rest)
              arm == MatchArm(members, w.id)
          IN IF w.ty = "TType::Stop" THEN end("")
             ELSE IF arm = 0
             THEN UnionReadLoop(members, r, received_field_count + 1,
                                Append(skipped, w.id), Tail(rest))
             ELSE UNION {IF x.ok
                         THEN UnionReadLoop(members,
                                IF is_none(r) THEN Some(Variant(arm, x.val)) ELSE r,
                                received_field_count + 1, skipped, Tail(rest))
                         ELSE end("read")
                         : x \in TypeRead(members[arm].type, w)}

\* a read that returns the first variant whatever the count of fields is
union_read_first_wins(ts, stream) ==
  {IF l.err # ""
   THEN Result("Err::Protocol", <<>>, 0, l.err, l.skipped)
   ELSE IF l.count = 0
   THEN Result("Err::Protocol", <<>>, 0, "received empty union from remote", l.skipped)
   ELSE IF is_some(l.ret)
   THEN Result("Ok", unwrap(l.ret), 0, "", l.skipped)
   ELSE Result("Err::Protocol", <<>>, 0,
               "return value should have been constructed", l.skipped)
   : l \in UnionReadLoop(ts.members, None, 0, <<>>, stream)}

render_union_sync_read(ts, stream) ==
  {IF l.err # ""
   THEN Result("Err::Protocol", <<>>, 0, l.err, l.skipped)
   ELSE IF l.count = 0
   THEN Result("Err::Protocol", <<>>, 0, "received empty union from remote", l.skipped)
   ELSE IF l.count > 1
   THEN Result("Err::Protocol", <<>>, 0,
               "received multiple fields for union from remote", l.skipped)
   ELSE IF is_some(l.ret)
   THEN Result("Ok", unwrap(l.ret), 0, "", l.skipped)
   ELSE Result("Err::Protocol", <<>>, 0,
               "return value should have been constructed", l.skipped)
   : l \in UnionReadLoop(ts.members, None, 0, <<>>, stream)}

----------------------------------------------------------------------------
(* Input domain *)

FieldSet == [key : KeySet, type : TypeSet, req : ReqSet]

MemberLists ==
  {m \in UNION {[1..n -> FieldSet] : n \in 0..MaxFields} :
     \A i, j \in 1..Len(m) : i < j => m[i].key < m[j].key}

\* values of the Rust struct: Option<T> members for optional fields
FieldValues(tfield, stype) ==
  IF is_optional(actual_field_req(tfield, stype))
  THEN {None} \cup {Some(x) : x \in ValueSet}
  ELSE ValueSet

RECURSIVE StructValuesFrom(_, _, _)
StructValuesFrom(members, stype, i) ==
  IF i > Len(members) THEN {<<>>}
  ELSE {<<x>> \o rest : x \in FieldValues(members[i], stype),
                        rest \in StructValuesFrom(members, stype, i + 1)}

StructValues(members, stype) == StructValuesFrom(members, stype, 1)

DeclaredKeys(members) == {members[i].key : i \in 1..Len(members)}

TypeOfKey(members, k) ==
  LET i == CHOOSE j \in 1..Len(members) : members[j].key = k
  IN members[i].type

\* fields of an id the struct does not declare, as a newer peer sends them
UnknownFields ==
  {WField(k, IF k < 0 THEN "TType::I32" ELSE "TType::Struct", 1) : k \in UnknownKeySet}

\* fields a peer can send: a declared id with its declared wire type, or an
\* undeclared id
WireFields(members) ==
  {WField(k, to_rust_field_type_enum(TypeOfKey(members, k)), x) :
     k \in DeclaredKeys(members), x \in ValueSet}
  \cup UnknownFields

InsertAt(s, p, w) == SubSeq(s, 1, p - 1) \o <<w>> \o SubSeq(s, p, Len(s))

----------------------------------------------------------------------------
(* Scenario: write a value, possibly tamper with the stream, read it *)

\* no pipe server was constructed
PipeIdle ==
  /\ stopping_ = FALSE
  /\ cached_client_ = 0
  /\ Pipe_ = 0
  /\ pipe_protect_ = "free"
  /\ connectOverlap_ = [h |-> 0, success |-> FALSE, last_error |-> ""]
  /\ cancelOverlap_ = [h |-> 0]
  /\ workList = <<>>
  /\ io = <<>>
  /\ a_pc = "idle"
  /\ a_client = [client |-> 0, ends |-> ""]
  /\ i_pc = "idle"
  /\ accept_ret = [kind |-> "none", client |-> 0, stopping |-> FALSE, armed |-> {}]
  /\ returned = <<>>
  /\ unlocked = {}
  /\ counters = [pipes |-> 0, clients |-> 0, accepts |-> 0, interrupts |-> 0]
  /\ armed = {}
  /\ watch = [on |-> FALSE, outcome |-> "none", h |-> 0]

\* no render function was called
FnIdle ==
  /\ t_type = [kind |-> "void", fwd |-> FALSE, args |-> <<>>]
  /\ read_call = <<>>
  /\ rust_type = <<>>
  /\ const_shape = ""
  /\ field_ids = <<>>
  /\ safe_ids = <<>>
  /\ derives = <<>>

\* no service call is in progress
GenIdle ==
  /\ program = [struct |-> <<>>, service |-> <<>>]
  /\ program0 = program
  /\ emitted = {}

DispatchIdle ==
  /\ tservice = [name |-> <<>>, functions |-> <<>>, extends |-> <<>>]
  /\ message_ident = [name |-> <<>>, sequence_number |-> 0]
  /\ invoked = <<>>
  /\ res = [kind |-> "none", val |-> 0, tname |-> "", message |-> <<>>]

RpcIdle ==
  /\ tfunc = [name |-> "", returntype |-> "void", oneway |-> FALSE, xceptions |-> <<>>]
  /\ sequence_number = 0
  /\ c_out = <<>>
  /\ handler_ret = [kind |-> "none", val |-> 0, tname |-> ""]
  /\ o_prot = <<>>
  /\ result = Result("none", <<>>, 0, "", <<>>)
  /\ client_ret = [kind |-> "none", val |-> 0, tname |-> ""]
  /\ i_ops = <<>>
  /\ p_ret = [kind |-> "none", val |-> 0, tname |-> ""]
  /\ o_ops = <<>>
  /\ ncalls = 0

Init ==
  /\ pc = "start"
  /\ PipeIdle
  /\ FnIdle
  /\ \E m \in MemberLists : tstruct = [name |-> "Point", members |-> m]
  /\ struct_type \in {"T_REGULAR", "T_ARGS"}
  /\ self = <<>>
  /\ wire = <<>>
  /\ origin = "none"
  /\ ret = Result("none", <<>>, 0, "", <<>>)
  /\ RpcIdle
  /\ GenIdle
  /\ DispatchIdle

\* self.write_to_out_protocol(o_prot)
Write ==
  /\ pc = "start"
  /\ \E v \in StructValues(tstruct.members, struct_type) :
       /\ self' = v
       /\ wire' = render_struct_sync_write(tstruct, struct_type, v)
  /\ origin' = "written"
  /\ pc' = "wire"
  /\ UNCHANGED <<tstruct, struct_type, ret, rpcVars, dispatchVars, genVars, fnVars, pipeVars>>

\* a peer with a newer schema adds a field the struct does not declare
InjectUnknown ==
  /\ pc = "wire"
  /\ origin = "written"
  /\ \E p \in 1..Len(wire), w \in UnknownFields :
       wire' = InsertAt(wire, p, w)
  /\ origin' = "injected"
  /\ UNCHANGED <<pc, tstruct, struct_type, self, ret, rpcVars, dispatchVars, genVars, fnVars, pipeVars>>

\* a peer sends any stream of well-typed fields ending in Stop
Forge ==
  /\ pc = "start"
  /\ \E n \in 0..MaxWire :
       \E s \in [1..n -> WireFields(tstruct.members)] : wire' = s \o <<Stop>>
  /\ origin' = "forged"
  /\ pc' = "wire"
  /\ UNCHANGED <<tstruct, struct_type, self, ret, rpcVars, dispatchVars, genVars, fnVars, pipeVars>>

\* Struct::read_from_in_protocol(i_prot)
Read ==
  /\ pc = "wire"
  /\ ret' \in render_struct_sync_read(tstruct, struct_type, wire)
  /\ pc' = "done"
  /\ UNCHANGED <<tstruct, struct_type, self, wire, origin, rpcVars, dispatchVars, genVars, fnVars, pipeVars>>

Next == Write \/ InjectUnknown \/ Forge \/ Read

Spec == Init /\ [][Next]_vars

----------------------------------------------------------------------------
(* Scenario: write a union variant or forge a stream, read it *)

\* render_union_definition rejects a union without members; the parser makes
\* every member of a union optional
UnionMemberLists ==
  {m \in MemberLists : Len(m) >= 1 /\ \A i \in 1..Len(m) : m[i].req = "T_OPTIONAL"}

InitUnion ==
  /\ pc = "start"
  /\ PipeIdle
  /\ FnIdle
  /\ \E m \in UnionMemberLists : tstruct = [name |-> "U", members |-> m]
  /\ struct_type = "T_UNION"
  /\ self = <<>>
  /\ wire = <<>>
  /\ origin = "none"
  /\ ret = Result("none", <<>>, 0, "", <<>>)
  /\ RpcIdle
  /\ GenIdle
  /\ DispatchIdle

UnionWrite ==
  /\ pc = "start"
  /\ \E arm \in 1..Len(tstruct.members), x \in ValueSet :
       /\ self' = Variant(arm, x)
       /\ wire' = render_union_sync_write(tstruct, Variant(arm, x))
  /\ origin' = "written"
  /\ pc' = "wire"
  /\ UNCHANGED <<tstruct, struct_type, ret, rpcVars, dispatchVars, genVars, fnVars, pipeVars>>

UnionRead ==
  /\ pc = "wire"
  /\ ret' \in render_union_sync_read(tstruct, wire)
  /\ pc' = "done"
  /\ UNCHANGED <<tstruct, struct_type, self, wire, origin, rpcVars, dispatchVars, genVars, fnVars, pipeVars>>

NextUnion == UnionWrite \/ Forge \/ UnionRead

SpecUnion == InitUnion /\ [][NextUnion]_vars

----------------------------------------------------------------------------
(* Service call: result struct, processor function, client recv *)

SERVICE_RESULT_VARIABLE == "result_value"

XField(key, tname) ==
  [key |-> key, type |-> "xception", req |-> "T_OPTIONAL", name |-> "x", tname |-> tname]

\* members of the result struct in id order: result_value has id 0 and is
\* left out for a void function; every exception is made optional
render_service_call_result_value_struct(tf) ==
  LET return_value == [key |-> 0, type |-> tf.returntype, req |-> "T_OPTIONAL",
                       name |-> SERVICE_RESULT_VARIABLE, tname |-> ""]
      xs == tf.xceptions
      below == SelectSeq(xs, LAMBDA f : f.key < 0)
      above == SelectSeq(xs, LAMBDA f : f.key > 0)
  IN [name |-> "Result",
      members |-> IF tf.returntype = "void" THEN xs
                  ELSE below \o <<return_value>> \o above]

CRet(kind, val, tname) == [kind |-> kind, val |-> val, tname |-> tname]

\* ok_or with the return-value branch rendered before the exception branches
ok_or_return_first(members, value) ==
  LET xs == {i \in 1..Len(members) : members[i].name # SERVICE_RESULT_VARIABLE}
      rs == {i \in 1..Len(members) : members[i].name = SERVICE_RESULT_VARIABLE}
      thrown == {i \in xs : is_some(value[i])}
      first == CHOOSE i \in thrown : \A j \in thrown : i <= j
      r == CHOOSE i \in rs : TRUE
  IN IF rs # {} /\ is_some(value[r])
     THEN CRet("Ok", unwrap(value[r]), "")
     ELSE IF thrown # {}
     THEN CRet("Err::User", unwrap(value[first]), members[first].tname)
     ELSE IF rs = {}
     THEN CRet("Ok", 0, "()")
     ELSE CRet("Err::Application", 0, "MissingResult")

\* emitted ok_or of a result struct: the exception branches come first, in
\* member order, then the return value
render_result_struct_to_result_method(members, value) ==
  LET xs == {i \in 1..Len(members) : members[i].name # SERVICE_RESULT_VARIABLE}
      rs == {i \in 1..Len(members) : members[i].name = SERVICE_RESULT_VARIABLE}
      thrown == {i \in xs : is_some(value[i])}
      first == CHOOSE i \in thrown : \A j \in thrown : i <= j
      r == CHOOSE i \in rs : TRUE
  IN IF thrown # {}
     THEN CRet("Err::User", unwrap(value[first]), members[first].tname)
     ELSE IF rs = {}
     THEN CRet("Ok", 0, "()")
     ELSE IF is_some(value[r])
     THEN CRet("Ok", unwrap(value[r]), "")
     ELSE CRet("Err::Application", 0, "MissingResult")

Message(name, type, seq, body) == [name |-> name, type |-> type, seq |-> seq, body |-> body]

\* result struct of a successful call
handler_successful_return_struct(tf, handler_return) ==
  LET members == render_service_call_result_value_struct(tf).members
  IN [i \in 1..Len(members) |->
        IF members[i].name = SERVICE_RESULT_VARIABLE THEN Some(handler_return) ELSE None]

render_sync_handler_succeeded(tf, incoming_sequence_number, handler_return) ==
  IF tf.oneway THEN <<>>
  ELSE <<Message(tf.name, "TMessageType::Reply", incoming_sequence_number,
                 render_struct_sync_write(render_service_call_result_value_struct(tf),
                   "T_RESULT", handler_successful_return_struct(tf, handler_return)))>>

\* Display of a thrift::Error: a text that tells the error
error_to_string(e) == e.kind \o "(" \o e.tname \o ")"

\* ApplicationError::new(ApplicationErrorKind::Unknown, e.to_string())
unknown_application_error(e) == "Unknown: " \o error_to_string(e)

\* an answer to a failure sent as a Reply message
send_exception_as_reply(tf, incoming_sequence_number, err_kind) ==
  <<Message(tf.name, "TMessageType::Reply", incoming_sequence_number, err_kind)>>

render_sync_handler_send_exception_response(tf, incoming_sequence_number, err_kind) ==
  <<Message(tf.name, "TMessageType::Exception", incoming_sequence_number, err_kind)>>

\* usr_err is downcast to the declared exception types in member order
render_sync_handler_failed_user_exception_branch(tf, incoming_sequence_number, usr_err) ==
  LET txceptions == tf.xceptions
      hits == {i \in 1..Len(txceptions) : txceptions[i].tname = usr_err.tname}
      xception_field == txceptions[CHOOSE i \in hits : \A j \in hits : i <= j]
      members == render_service_call_result_value_struct(tf).members
      ret_err == [i \in 1..Len(members) |->
                    IF members[i] = xception_field THEN Some(usr_err.val) ELSE None]
  IN IF hits # {}
     THEN <<Message(tf.name, "TMessageType::Reply", incoming_sequence_number,
                    render_struct_sync_write(render_service_call_result_value_struct(tf),
                                             "T_RESULT", ret_err))>>
     ELSE render_sync_handler_send_exception_response(tf, incoming_sequence_number,
                                                      unknown_application_error(usr_err))

\* handler failure that answers an application error also for a oneway function
handler_failed_oneway_answers(tf, incoming_sequence_number, e) ==
  IF e.kind = "Err::User" /\ Len(tf.xceptions) > 0
  THEN render_sync_handler_failed_user_exception_branch(tf, incoming_sequence_number, e)
  ELSE IF e.kind = "Err::Application"
  THEN render_sync_handler_send_exception_response(tf, incoming_sequence_number, e.tname)
  ELSE IF tf.oneway THEN <<>>
       ELSE render_sync_handler_send_exception_response(tf, incoming_sequence_number,
                                                        unknown_application_error(e))

render_sync_handler_failed(tf, incoming_sequence_number, e) ==
  IF e.kind = "Err::User" /\ Len(tf.xceptions) > 0
  THEN render_sync_handler_failed_user_exception_branch(tf, incoming_sequence_number, e)
  ELSE IF e.kind = "Err::Application"
  THEN IF tf.oneway THEN <<>>
       ELSE render_sync_handler_send_exception_response(tf, incoming_sequence_number, e.tname)
  ELSE IF tf.oneway THEN <<>>
       ELSE render_sync_handler_send_exception_response(tf, incoming_sequence_number,
                                                        unknown_application_error(e))

\* what the per-function processor writes for a handler outcome
render_sync_process_function(tf, incoming_sequence_number, outcome) ==
  IF outcome.kind = "Ok"
  THEN render_sync_handler_succeeded(tf, incoming_sequence_number, outcome.val)
  ELSE render_sync_handler_failed(tf, incoming_sequence_number, outcome)

\* what the per-function process function returns to process: for a oneway
\* function Ok(()) or the handler's failure as an application error, else the
\* outcome of the flush that ends the answer
sync_process_function_result(tf, outcome) ==
  IF ~tf.oneway \/ outcome.kind = "Ok" THEN CRet("Ok", 0, "()")
  ELSE IF outcome.kind = "Err::Application" THEN CRet("Err::Application", 0, outcome.tname)
  ELSE CRet("Err::Application", 0, unknown_application_error(outcome))

I32_MAX == 2147483647

\* self._sequence_number += 1 on an i32
increment_sequence_number(n) == IF n = I32_MAX THEN -I32_MAX - 1 ELSE n + 1

\* the calls of the emitted send on the output protocol, each ended by `?`
\* but the last, whose value is the value of the send
SendSteps == <<"write_message_begin", "write_to_out_protocol", "write_message_end", "flush">>

\* send that goes on after a failed call
send_ops_unchecked(fail) ==
  [i \in 1..Len(SendSteps) |-> [op |-> SendSteps[i], ok |-> i # fail]]

\* the calls the send makes when step `fail` fails (0: none does)
render_sync_send_ops(fail) ==
  [i \in 1..(IF fail = 0 THEN Len(SendSteps) ELSE fail) |->
     [op |-> SendSteps[i], ok |-> i # fail]]

render_sync_send(tf, seq) ==
  Message(tf.name, IF tf.oneway THEN "TMessageType::OneWay" ELSE "TMessageType::Call",
          seq, render_struct_sync_write([name |-> "Args", members |-> <<>>], "T_ARGS", <<>>))

\* recv that answers an Exception message with an application error of its own
recv_exception_kind_lost(tf, seq, m) ==
  LET none == Result("none", <<>>, 0, "", <<>>)
      ts == render_service_call_result_value_struct(tf)
      begin == <<"read_message_begin">>
  IN IF m.seq # seq
     THEN {<<none, CRet("Err::Application", 0, "BadSequenceId"), begin>>}
     ELSE IF m.name # tf.name
     THEN {<<none, CRet("Err::Application", 0, "WrongMethodName"), begin>>}
     ELSE IF m.type = "TMessageType::Exception"
     THEN {<<none, CRet("Err::Application", 0, "Unknown"),
             begin \o <<"read_application_error_from_in_protocol", "read_message_end">> >>}
     ELSE IF m.type # "TMessageType::Reply"
     THEN {<<none, CRet("Err::Application", 0, "InvalidMessageType"), begin>>}
     ELSE {<<r,
             IF r.kind = "Ok"
             THEN render_result_struct_to_result_method(ts.members, r.val)
             ELSE CRet("Err::Protocol", 0, r.msg),
             begin \o <<"read_from_in_protocol">>
                   \o (IF r.kind = "Ok" THEN <<"read_message_end">> ELSE <<>>)>>
           : r \in render_struct_sync_read(ts, "T_RESULT", m.body)}

\* recv that verifies the name before the sequence number
recv_name_before_sequence(tf, seq, m) ==
  LET none == Result("none", <<>>, 0, "", <<>>)
      ts == render_service_call_result_value_struct(tf)
      begin == <<"read_message_begin">>
  IN IF m.name # tf.name
     THEN {<<none, CRet("Err::Application", 0, "WrongMethodName"), begin>>}
     ELSE IF m.seq # seq
     THEN {<<none, CRet("Err::Application", 0, "BadSequenceId"), begin>>}
     ELSE IF m.type = "TMessageType::Exception"
     THEN {<<none, CRet("Err::Application", 0, m.body),
             begin \o <<"read_application_error_from_in_protocol", "read_message_end">> >>}
     ELSE IF m.type # "TMessageType::Reply"
     THEN {<<none, CRet("Err::Application", 0, "InvalidMessageType"), begin>>}
     ELSE {<<r,
             IF r.kind = "Ok"
             THEN render_result_struct_to_result_method(ts.members, r.val)
             ELSE CRet("Err::Protocol", 0, r.msg),
             begin \o <<"read_from_in_protocol">>
                   \o (IF r.kind = "Ok" THEN <<"read_message_end">> ELSE <<>>)>>
           : r \in render_struct_sync_read(ts, "T_RESULT", m.body)}

\* the client's recv on message m: the set of
\* <<result struct read, return, calls made on the input protocol>>
render_sync_recv(tf, seq, m) ==
  LET none == Result("none", <<>>, 0, "", <<>>)
      ts == render_service_call_result_value_struct(tf)
      begin == <<"read_message_begin">>
  IN IF m.seq # seq
     THEN {<<none, CRet("Err::Application", 0, "BadSequenceId"), begin>>}
     ELSE IF m.name # tf.name
     THEN {<<none, CRet("Err::Application", 0, "WrongMethodName"), begin>>}
     ELSE IF m.type = "TMessageType::Exception"
     THEN {<<none, CRet("Err::Application", 0, m.body),
             begin \o <<"read_application_error_from_in_protocol", "read_message_end">> >>}
     ELSE IF m.type # "TMessageType::Reply"
     THEN {<<none, CRet("Err::Application", 0, "InvalidMessageType"), begin>>}
     ELSE {<<r,
             IF r.kind = "Ok"
             THEN render_result_struct_to_result_method(ts.members, r.val)
             ELSE CRet("Err::Protocol", 0, r.msg),
             begin \o <<"read_from_in_protocol">>
                   \o (IF r.kind = "Ok" THEN <<"read_message_end">> ELSE <<>>)>>
           : r \in render_struct_sync_read(ts, "T_RESULT", m.body)}

----------------------------------------------------------------------------
(* Scenario: one call of a function, answered by the processor or by a peer *)

XceptionLists ==
  {m \in UNION {[1..n -> {XField(k, t) : k \in XKeySet, t \in XTypeSet}]
                 : n \in 0..MaxXceptions} :
     \A i, j \in 1..Len(m) : i < j => m[i].key < m[j].key}

\* a oneway function is void and throws nothing: t_function rejects a oneway
\* function with exceptions, and the code emitted for a oneway function with
\* a return type does not compile
Functions ==
  {[name |-> "add", returntype |-> rt, oneway |-> FALSE, xceptions |-> xs]
     : rt \in {"void", "i32"}, xs \in XceptionLists}
  \cup {[name |-> "add", returntype |-> "void", oneway |-> TRUE, xceptions |-> <<>>]}

HandlerOutcomes(tf) ==
  {CRet("Ok", x, "") : x \in IF tf.returntype = "void" THEN {0} ELSE ValueSet}
  \cup {CRet("Err::User", x, t) : x \in ValueSet, t \in XTypeSet \cup {"E3"}}
  \cup {CRet("Err::Application", 0, k) : k \in {"InternalError", "Unknown"}}
  \cup {CRet("Err::Transport", 0, "")}

InitRpc ==
  /\ pc = "start"
  /\ PipeIdle
  /\ FnIdle
  /\ origin = "none"
  /\ tstruct = [name |-> "", members |-> <<>>]
  /\ struct_type = "T_RESULT"
  /\ self = <<>>
  /\ wire = <<>>
  /\ ret = Result("none", <<>>, 0, "", <<>>)
  /\ tfunc \in Functions
  /\ sequence_number = 0
  /\ c_out = <<>>
  /\ handler_ret = CRet("none", 0, "")
  /\ o_prot = <<>>
  /\ result = Result("none", <<>>, 0, "", <<>>)
  /\ client_ret = CRet("none", 0, "")
  /\ i_ops = <<>>
  /\ p_ret = [kind |-> "none", val |-> 0, tname |-> ""]
  /\ o_ops = <<>>
  /\ ncalls = 0
  /\ DispatchIdle
  /\ GenIdle

\* client: a service call up to the end of its send half; a failed step of
\* the send ends the call with that error
Send ==
  /\ pc \in {"start", "returned"}
  /\ ncalls < MaxCalls
  /\ ncalls' = ncalls + 1
  /\ sequence_number' = increment_sequence_number(sequence_number)
  /\ \E fail \in 0..Len(SendSteps) :
       /\ o_ops' = render_sync_send_ops(fail)
       /\ c_out' = IF \A i \in 1..Len(o_ops') : o_ops'[i].ok
                   THEN <<render_sync_send(tfunc, sequence_number')>> ELSE <<>>
       /\ pc' = IF fail # 0 \/ tfunc.oneway THEN "returned" ELSE "sent"
       /\ client_ret' = IF fail # 0 THEN CRet("Err::Transport", 0, SendSteps[fail])
                        ELSE IF tfunc.oneway THEN CRet("Ok", 0, "()")
                        ELSE CRet("none", 0, "")
  /\ origin' = "none"
  /\ handler_ret' = CRet("none", 0, "")
  /\ o_prot' = <<>>
  /\ result' = Result("none", <<>>, 0, "", <<>>)
  /\ i_ops' = <<>>
  /\ p_ret' = CRet("none", 0, "")
  /\ UNCHANGED <<codecVars, tfunc, dispatchVars, genVars, fnVars, pipeVars>>

\* processor: read the call and its args, run the handler, answer
Process ==
  /\ pc = IF tfunc.oneway THEN "returned" ELSE "sent"
  /\ origin = "none"
  /\ c_out # <<>>
  /\ \E outcome \in HandlerOutcomes(tfunc) :
       /\ handler_ret' = outcome
       /\ o_prot' = o_prot \o render_sync_process_function(tfunc, c_out[1].seq, outcome)
       /\ p_ret' = sync_process_function_result(tfunc, outcome)
  /\ origin' = "processed"
  /\ UNCHANGED <<pc, codecVars, tfunc, sequence_number, c_out, result, client_ret, i_ops,
                 o_ops, ncalls, dispatchVars, genVars, fnVars, pipeVars>>

\* names, sequence numbers and message types a peer can answer with
ReplyNames(tf) == {tf.name, "sub"}
ReplySeqs(seq) == {seq, seq - 1}
ReplyTypes == {"TMessageType::Reply", "TMessageType::Exception", "TMessageType::Call"}
ApplicationErrorKinds == {"UnknownMethod", "InternalError"}

\* the payloads a peer can put in a message of type ty: for a Reply any
\* combination of the return value and the exceptions, present or absent
ReplyBodies(tf, ty) ==
  LET ts == render_service_call_result_value_struct(tf)
  IN IF ty = "TMessageType::Reply"
     THEN {render_struct_sync_write(ts, "T_RESULT", v) : v \in StructValues(ts.members, "T_RESULT")}
     ELSE IF ty = "TMessageType::Exception" THEN ApplicationErrorKinds
     ELSE {<<Stop>>}

\* a peer answers the call with a message of its own making
ForgeReply ==
  /\ pc = "sent"
  /\ origin = "none"
  /\ \E n \in ReplyNames(tfunc), q \in ReplySeqs(sequence_number), ty \in ReplyTypes :
       \E b \in ReplyBodies(tfunc, ty) :
         o_prot' = <<Message(n, ty, q, b)>>
  /\ origin' = "forged"
  /\ UNCHANGED <<pc, codecVars, tfunc, sequence_number, c_out, handler_ret, result,
                 client_ret, i_ops, p_ret, o_ops, ncalls, dispatchVars, genVars, fnVars, pipeVars>>

\* client: the recv half of the call
Recv ==
  /\ pc = "sent"
  /\ o_prot # <<>>
  /\ \E rr \in render_sync_recv(tfunc, sequence_number, o_prot[1]) :
       /\ result' = rr[1]
       /\ client_ret' = rr[2]
       /\ i_ops' = rr[3]
  /\ pc' = "returned"
  /\ UNCHANGED <<origin, codecVars, tfunc, sequence_number, c_out, handler_ret, o_prot, p_ret,
                 o_ops, ncalls, dispatchVars, genVars, fnVars, pipeVars>>

NextRpc == Send \/ Process \/ ForgeReply \/ Recv

SpecRpc == InitRpc /\ [][NextRpc]_vars

----------------------------------------------------------------------------
(* Name mangler; an identifier is the sequence of its characters *)

LowerChars == <<"a", "b", "c", "d", "e", "f", "g", "h", "i", "j", "k", "l", "m", "n", "o", "p", "q", "r", "s", "t", "u", "v", "w", "x", "y", "z">>
UpperChars == <<"A", "B", "C", "D", "E", "F", "G", "H", "I", "J", "K", "L", "M", "N", "O", "P", "Q", "R", "S", "T", "U", "V", "W", "X", "Y", "Z">>

isupper(c) == \E i \in 1..Len(UpperChars) : UpperChars[i] = c
islower(c) == \E i \in 1..Len(LowerChars) : LowerChars[i] = c
tolower(c) ==
  IF isupper(c) THEN LowerChars[CHOOSE i \in 1..Len(UpperChars) : UpperChars[i] = c] ELSE c
toupper(c) ==
  IF islower(c) THEN UpperChars[CHOOSE i \in 1..Len(LowerChars) : LowerChars[i] = c] ELSE c

capitalize(in) == IF in = <<>> THEN in ELSE <<toupper(in[1])>> \o Tail(in)
decapitalize(in) == IF in = <<>> THEN in ELSE <<tolower(in[1])>> \o Tail(in)

\* every capital after the first character becomes `_` and its lower case
RECURSIVE underscore_rest(_)
underscore_rest(in) ==
  IF in = <<>> THEN <<>>
  ELSE (IF isupper(Head(in)) THEN <<"_", tolower(Head(in))>> ELSE <<Head(in)>>)
       \o underscore_rest(Tail(in))

underscore(in) == IF in = <<>> THEN in ELSE <<tolower(in[1])>> \o underscore_rest(Tail(in))

\* drops every `_` and capitalizes the character that follows it
RECURSIVE camelcase_rest(_, _)
camelcase_rest(in, after_underscore) ==
  IF in = <<>> THEN <<>>
  ELSE IF Head(in) = "_" THEN camelcase_rest(Tail(in), TRUE)
  ELSE IF after_underscore THEN <<toupper(Head(in))>> \o camelcase_rest(Tail(in), FALSE)
  ELSE <<Head(in)>> \o camelcase_rest(Tail(in), FALSE)

camelcase(in) == camelcase_rest(in, FALSE)

\* target.find(search_string, search_idx): first match at or after search_idx, 0 for npos
string_find(target, search_string, search_idx) ==
  LET hits == {i \in search_idx..(Len(target) - Len(search_string) + 1) :
                 SubSeq(target, i, i + Len(search_string) - 1) = search_string}
  IN IF hits = {} THEN 0 ELSE CHOOSE i \in hits : \A j \in hits : i <= j

\* one left-to-right pass; the search resumes after the replacement
RECURSIVE string_replace_from(_, _, _, _)
string_replace_from(target, search_string, replace_string, search_idx) ==
  LET match_idx == string_find(target, search_string, search_idx)
  IN IF match_idx = 0 THEN target
     ELSE string_replace_from(
            SubSeq(target, 1, match_idx - 1) \o replace_string
              \o SubSeq(target, match_idx + Len(search_string), Len(target)),
            search_string, replace_string, match_idx + Len(replace_string))

string_replace(target, search_string, replace_string) ==
  IF target = <<>> THEN target
  ELSE string_replace_from(target, search_string, replace_string, 1)

RUST_RESERVED_WORDS_SET ==
  {<<"a", "b", "s", "t", "r", "a", "c", "t">>,
   <<"a", "l", "i", "g", "n", "o", "f">>,
   <<"a", "s">>,
   <<"b", "e", "c", "o", "m", "e">>,
   <<"b", "o", "x">>,
   <<"b", "r", "e", "a", "k">>,
   <<"c", "o", "n", "s", "t">>,
   <<"c", "o", "n", "t", "i", "n", "u", "e">>,
   <<"c", "r", "a", "t", "e">>,
   <<"d", "o">>,
   <<"e", "l", "s", "e">>,
   <<"e", "n", "u", "m">>,
   <<"e", "x", "t", "e", "r", "n">>,
   <<"f", "a", "l", "s", "e">>,
   <<"f", "i", "n", "a", "l">>,
   <<"f", "n">>,
   <<"f", "o", "r">>,
   <<"i", "f">>,
   <<"i", "m", "p", "l">>,
   <<"i", "n">>,
   <<"l", "e", "t">>,
   <<"l", "o", "o", "p">>,
   <<"m", "a", "c", "r", "o">>,
   <<"m", "a", "t", "c", "h">>,
   <<"m", "o", "d">>,
   <<"m", "o", "v", "e">>,
   <<"m", "u", "t">>,
   <<"o", "f", "f", "s", "e", "t", "o", "f">>,
   <<"o", "v", "e", "r", "r", "i", "d", "e">>,
   <<"p", "r", "i", "v">>,
   <<"p", "r", "o", "c">>,
   <<"p", "u", "b">>,
   <<"p", "u", "r", "e">>,
   <<"r", "e", "f">>,
   <<"r", "e", "t", "u", "r", "n">>,
   <<"S", "e", "l", "f">>,
   <<"s", "e", "l", "f">>,
   <<"s", "i", "z", "e", "o", "f">>,
   <<"s", "t", "a", "t", "i", "c">>,
   <<"s", "t", "r", "u", "c", "t">>,
   <<"s", "u", "p", "e", "r">>,
   <<"t", "r", "a", "i", "t">>,
   <<"t", "r", "u", "e">>,
   <<"t", "y", "p", "e">>,
   <<"t", "y", "p", "e", "o", "f">>,
   <<"u", "n", "s", "a", "f", "e">>,
   <<"u", "n", "s", "i", "z", "e", "d">>,
   <<"u", "s", "e">>,
   <<"v", "i", "r", "t", "u", "a", "l">>,
   <<"w", "h", "e", "r", "e">>,
   <<"w", "h", "i", "l", "e">>,
   <<"y", "i", "e", "l", "d">>}

is_reserved(name) == name \in RUST_RESERVED_WORDS_SET
rust_safe_name(name) == IF is_reserved(name) THEN name \o <<"_">> ELSE name
rust_snake_case(name) == string_replace(decapitalize(underscore(name)), <<"_", "_">>, <<"_">>)
rust_camel_case(name) == string_replace(capitalize(camelcase(name)), <<"_">>, <<>>)

----------------------------------------------------------------------------
(* Emitted processor: the dispatch of process over a service and its ancestors *)

\* a service is [name, functions (in declaration order), extends]; extends is
\* <<>> or <<the service it extends>>; every service is of the program that
\* is generated, so rust_namespace is empty
get_extends(ts) == ts.extends[1]

rust_sync_processor_impl_name(ts) ==
  <<"T">> \o rust_camel_case(ts.name) \o <<"P", "r", "o", "c", "e", "s", "s", "F", "u", "n", "c", "t", "i", "o", "n", "s">>

process_function_name(tf) == <<"p", "r", "o", "c", "e", "s", "s", "_">> \o rust_snake_case(tf.name)

\* match arms keyed by the snake-cased name
RECURSIVE match_statements_snake_keyed(_)
match_statements_snake_keyed(ts) ==
  [i \in 1..Len(ts.functions) |->
     [pattern |-> rust_snake_case(ts.functions[i].name),
      call |-> process_function_name(ts.functions[i])]]
  \o (IF ts.extends # <<>> THEN match_statements_snake_keyed(get_extends(ts)) ELSE <<>>)

\* match arms with the arms of the extended service first
RECURSIVE match_statements_parents_first(_)
match_statements_parents_first(ts) ==
  (IF ts.extends # <<>> THEN match_statements_parents_first(get_extends(ts)) ELSE <<>>)
  \o [i \in 1..Len(ts.functions) |->
        [pattern |-> ts.functions[i].name, call |-> process_function_name(ts.functions[i])]]

\* the match arms: the literal the arm matches and the method it calls
RECURSIVE render_process_match_statements(_)
render_process_match_statements(ts) ==
  [i \in 1..Len(ts.functions) |->
     [pattern |-> ts.functions[i].name, call |-> process_function_name(ts.functions[i])]]
  \o (IF ts.extends # <<>> THEN render_process_match_statements(get_extends(ts)) ELSE <<>>)

\* delegation methods that all hand over to the process functions of the
\* service the processor is emitted for
RECURSIVE delegation_functions_own_processor(_)
delegation_functions_own_processor(ts) ==
  LET rest == IF ts.extends # <<>>
              THEN delegation_functions_own_processor(get_extends(ts)) ELSE <<>>
  IN [i \in 1..Len(ts.functions) |->
        [function_name |-> process_function_name(ts.functions[i]),
         actual_processor |-> rust_sync_processor_impl_name(ts)]]
     \o [i \in 1..Len(rest) |->
          [function_name |-> rest[i].function_name,
           actual_processor |-> rust_sync_processor_impl_name(ts)]]

\* the methods of the processor: each hands over to the function of the same
\* name of the process functions of the service the recursion is at
RECURSIVE render_sync_process_delegation_functions(_)
render_sync_process_delegation_functions(ts) ==
  [i \in 1..Len(ts.functions) |->
     [function_name |-> process_function_name(ts.functions[i]),
      actual_processor |-> rust_sync_processor_impl_name(ts)]]
  \o (IF ts.extends # <<>> THEN render_sync_process_delegation_functions(get_extends(ts))
      ELSE <<>>)

ProcessCall(processor, function) == [processor |-> processor, function |-> function]
DRet(kind, tname, message) == [kind |-> kind, val |-> 0, tname |-> tname, message |-> message]

\* process on a message header: the calls made and the value of the match,
\* given the value the invoked process function returns
render_sync_processor_definition_and_impl(ts, ident, outcome) ==
  LET arms == render_process_match_statements(ts)
      hits == {i \in 1..Len(arms) : arms[i].pattern = ident.name}
      arm == arms[CHOOSE i \in hits : \A j \in hits : i <= j]
      delegations == render_sync_process_delegation_functions(ts)
      d == delegations[CHOOSE i \in 1..Len(delegations) :
                         delegations[i].function_name = arm.call]
  IN IF hits = {}
     THEN [invoked |-> <<>>,
           res |-> DRet("Err::Application", "UnknownMethod",
                        <<"u", "n", "k", "n", "o", "w", "n", " ", "m", "e", "t", "h", "o", "d", " ">> \o ident.name)]
     ELSE [invoked |-> <<ProcessCall(d.actual_processor, d.function_name)>>,
           res |-> outcome]

----------------------------------------------------------------------------
(* Scenario: a processor is emitted for a service; process reads one message *)

\* function names of the IDL; no two have the same snake case, else the
\* emitted processor has two methods of one name and does not compile
FunctionNames ==
  {<<"a", "d", "d">>, <<"g", "e", "t", "X">>, <<"s", "u", "b">>, <<"P", "i", "n", "g">>}

\* names a peer can call: the declared ones, a snake-cased one and others
MessageNames ==
  FunctionNames \cup {<<"m", "u", "l">>, <<"g", "e", "t", "_", "x">>, <<"p", "i", "n", "g">>}

Range(f) == {f[i] : i \in DOMAIN f}

FuncLists(avail) ==
  {fs \in UNION {[1..n -> {[name |-> a] : a \in avail}] : n \in 0..MaxFuncs} :
     \A i, j \in 1..Len(fs) : i # j => fs[i] # fs[j]}

ServiceName(d) == <<"c", "a", "l", "c", "_">> \o to_string(d)

\* the services with at most d levels whose functions are named from avail
RECURSIVE Services(_, _)
Services(d, avail) ==
  UNION {
    {[name |-> ServiceName(d), functions |-> fs, extends |-> <<>>]}
    \cup (IF d > 1
          THEN {[name |-> ServiceName(d), functions |-> fs, extends |-> <<parent>>] :
                  parent \in Services(d - 1, avail \ {f.name : f \in Range(fs)})}
          ELSE {})
    : fs \in FuncLists(avail)}

HandlerResults == {DRet("Ok", "", <<>>), DRet("Err::Application", "InternalError", <<>>)}

InitDispatch ==
  /\ pc = "start"
  /\ PipeIdle
  /\ FnIdle
  /\ origin = "none"
  /\ tstruct = [name |-> "", members |-> <<>>]
  /\ struct_type = "T_REGULAR"
  /\ self = <<>>
  /\ wire = <<>>
  /\ ret = Result("none", <<>>, 0, "", <<>>)
  /\ RpcIdle
  /\ GenIdle
  /\ tservice \in Services(MaxDepth, FunctionNames)
  /\ message_ident = [name |-> <<>>, sequence_number |-> 0]
  /\ invoked = <<>>
  /\ res = DRet("none", "", <<>>)

\* a peer sends a call
Receive ==
  /\ pc = "start"
  /\ \E n \in MessageNames : message_ident' = [name |-> n, sequence_number |-> 1]
  /\ pc' = "received"
  /\ UNCHANGED <<origin, codecVars, rpcVars, tservice, invoked, res, genVars, fnVars, pipeVars>>

\* process: read the message header and dispatch on its name
Dispatch ==
  /\ pc = "received"
  /\ \E outcome \in HandlerResults :
       LET r == render_sync_processor_definition_and_impl(tservice, message_ident, outcome)
       IN /\ invoked' = r.invoked
          /\ res' = r.res
  /\ pc' = "dispatched"
  /\ UNCHANGED <<origin, codecVars, rpcVars, tservice, message_ident, genVars, fnVars, pipeVars>>

NextDispatch == Receive \/ Dispatch

SpecDispatch == InitDispatch /\ [][NextDispatch]_vars

----------------------------------------------------------------------------
(* The generator run: names the emitted code puts on the wire, and the tree *)

RESULT_STRUCT_SUFFIX == <<"R", "e", "s", "u", "l", "t">>
ResultVariableName == <<"r", "e", "s", "u", "l", "t", "_", "v", "a", "l", "u", "e">>

service_call_result_struct_name(service_name_, tf) ==
  rust_camel_case(service_name_) \o rust_camel_case(tf.name) \o RESULT_STRUCT_SUFFIX

Named(what, name) == [what |-> what, name |-> name]

\* TFieldIdentifier::new of every member
field_idents(members) == [i \in 1..Len(members) |-> Named("field", members[i].name)]

\* the identifiers the emitted write_to_out_protocol of a struct or union
\* writes: TStructIdentifier::new, then the field identifiers
struct_idents(what, ts) == <<Named(what, ts.name)>> \o field_idents(ts.members)

\* the struct render_service_call_result_value_struct builds and renders
result_struct(service_name_, tf) ==
  [name |-> service_call_result_struct_name(service_name_, tf),
   members |->
     (IF tf.returntype = "void" THEN <<>>
      ELSE <<[name |-> ResultVariableName, key |-> 0, req |-> "T_OPTIONAL",
              type |-> tf.returntype]>>)
     \o [j \in 1..Len(tf.xceptions.members) |->
           [tf.xceptions.members[j] EXCEPT !.req = "T_OPTIONAL"]]]

\* ok_or of a result struct: the name of the struct with the first "Result"
\* in it taken out
service_call_name(ts_name) ==
  LET index == string_find(ts_name, RESULT_STRUCT_SUFFIX, 1)
  IN SubSeq(ts_name, 1, index - 1) \o SubSeq(ts_name, index + 6, Len(ts_name))

NoResultReceivedFor ==
  <<"n", "o", " ", "r", "e", "s", "u", "l", "t", " ", "r", "e", "c", "e", "i", "v", "e", "d", " ", "f", "o", "r", " ">>

\* the message of the MissingResult error of ok_or, which is rendered when
\* the result struct has a return value
missing_result_message(ts) ==
  IF \E i \in 1..Len(ts.members) : ts.members[i].name = ResultVariableName
  THEN <<Named("missing result", NoResultReceivedFor \o service_call_name(ts.name))>>
  ELSE <<>>

\* the identifiers in the text emitted for one function of a service: client
\* send and recv, dispatch arm, answers of the process function, call structs
function_idents(service_name_, tf) ==
  <<Named("message", tf.name)>>
  \o (IF tf.oneway THEN <<>> ELSE <<Named("verify", tf.name)>>)
  \o <<Named("dispatch", tf.name)>>
  \o (IF tf.oneway THEN <<>> ELSE <<Named("message", tf.name)>>)
  \o struct_idents("args struct", tf.arglist)
  \o (IF tf.oneway THEN <<>>
      ELSE struct_idents("result struct", result_struct(service_name_, tf))
           \o missing_result_message(result_struct(service_name_, tf)))

\* the function as render_service_call_result_value_struct leaves it: set_req
\* is called on the fields of the function's own exceptions struct
after_result_value_struct(tf) ==
  IF tf.oneway THEN tf
  ELSE [tf EXCEPT !.xceptions.members =
          [j \in 1..Len(tf.xceptions.members) |->
             [tf.xceptions.members[j] EXCEPT !.req = "T_OPTIONAL"]]]

----------------------------------------------------------------------------
(* Scenario: the generate_ functions run over a program, in any order *)

\* identifiers of the IDL: some unchanged by the mangler, some changed by
\* casing, some reserved words of Rust
StructNames == {<<"P", "o", "i", "n", "t">>, <<"m", "y", "_", "s", "t", "r", "u", "c", "t">>, <<"t", "y", "p", "e">>}
StructFieldName(struct_name) ==
  CASE struct_name = <<"P", "o", "i", "n", "t">> -> <<"x">>
    [] struct_name = <<"m", "y", "_", "s", "t", "r", "u", "c", "t">> -> <<"m", "y", "F", "i", "e", "l", "d">>
    [] OTHER -> <<"t", "y", "p", "e">>
GenServiceNames == {<<"C", "a", "l", "c">>, <<"c", "a", "l", "c">>}
GenFunctionNames == {<<"A", "d", "d">>, <<"g", "e", "t", "X">>, <<"g", "e", "t", "R", "e", "s", "u", "l", "t">>}

GenStructs ==
  {[name |-> n, kind |-> k,
    members |-> <<[name |-> StructFieldName(n), key |-> 1, req |-> "T_OPT_IN_REQ_OUT",
                   type |-> "i32"]>>] :
     n \in StructNames, k \in {"struct", "union", "xception"}}

\* the exceptions struct of a function: fields with ids 1, 2, .. of any
\* requiredness the IDL can declare
GenXceptions ==
  UNION {{[members |-> [j \in 1..n |->
                          [name |-> <<"e">> \o to_string(j), key |-> j, req |-> rq[j],
                           type |-> "xception"]]] :
            rq \in [1..n -> ReqSet]} : n \in 0..MaxXceptions}

\* the parser names the arguments struct <function>_args; a oneway function
\* is void and declares no exception
GenFunctions ==
  LET arglist(n) == [name |-> n \o <<"_", "a", "r", "g", "s">>,
                     members |-> <<[name |-> <<"a">>, key |-> 1,
                                    req |-> "T_OPT_IN_REQ_OUT", type |-> "i32"]>>]
  IN {[name |-> n, oneway |-> FALSE, returntype |-> rt, arglist |-> arglist(n),
       xceptions |-> xs] :
        n \in GenFunctionNames, rt \in {"void", "i32"}, xs \in GenXceptions}
     \cup {[name |-> n, oneway |-> TRUE, returntype |-> "void", arglist |-> arglist(n),
            xceptions |-> [members |-> <<>>]] : n \in GenFunctionNames}

GenServices ==
  {[name |-> n, functions |-> <<f>>, extends |-> <<>>] :
     n \in GenServiceNames, f \in GenFunctions}

Emitted(entity, idents) == [entity |-> entity, idents |-> idents]
Generated(entity) == \E e \in emitted : e.entity = entity

InitGen ==
  /\ pc = "start"
  /\ PipeIdle
  /\ FnIdle
  /\ origin = "none"
  /\ tstruct = [name |-> "", members |-> <<>>]
  /\ struct_type = "T_REGULAR"
  /\ self = <<>>
  /\ wire = <<>>
  /\ ret = Result("none", <<>>, 0, "", <<>>)
  /\ RpcIdle
  /\ DispatchIdle
  /\ \E st \in GenStructs, sv \in GenServices : program = [struct |-> st, service |-> sv]
  /\ program0 = program
  /\ emitted = {}

\* generate_typedef, generate_enum and generate_const print a definition and
\* call getters only
generate_typedef ==
  /\ ~Generated("typedef")
  /\ emitted' = emitted \cup {Emitted("typedef", <<>>)}
  /\ UNCHANGED <<pc, origin, codecVars, rpcVars, dispatchVars, program, program0, fnVars, pipeVars>>

generate_enum ==
  /\ ~Generated("enum")
  /\ emitted' = emitted \cup {Emitted("enum", <<>>)}
  /\ UNCHANGED <<pc, origin, codecVars, rpcVars, dispatchVars, program, program0, fnVars, pipeVars>>

generate_const ==
  /\ ~Generated("const")
  /\ emitted' = emitted \cup {Emitted("const", <<>>)}
  /\ UNCHANGED <<pc, origin, codecVars, rpcVars, dispatchVars, program, program0, fnVars, pipeVars>>

generate_struct ==
  /\ program.struct.kind \in {"struct", "union"}
  /\ ~Generated("struct")
  /\ emitted' = emitted \cup {Emitted("struct", struct_idents("struct", program.struct))}
  /\ UNCHANGED <<pc, origin, codecVars, rpcVars, dispatchVars, program, program0, fnVars, pipeVars>>

generate_xception ==
  /\ program.struct.kind = "xception"
  /\ ~Generated("struct")
  /\ emitted' = emitted \cup {Emitted("struct", struct_idents("struct", program.struct))}
  /\ UNCHANGED <<pc, origin, codecVars, rpcVars, dispatchVars, program, program0, fnVars, pipeVars>>

\* client, processor and the call structs of every function
generate_service ==
  /\ ~Generated("service")
  /\ LET tsv == program.service
         fs == tsv.functions
     IN /\ emitted' = emitted \cup
             {Emitted("service", function_idents(tsv.name, fs[1]))}
        /\ program' = [program EXCEPT !.service.functions =
                         [i \in 1..Len(fs) |-> after_result_value_struct(fs[i])]]
  /\ UNCHANGED <<pc, origin, codecVars, rpcVars, dispatchVars, program0, fnVars, pipeVars>>

NextGen ==
  \/ generate_typedef \/ generate_enum \/ generate_const
  \/ generate_struct \/ generate_xception \/ generate_service

SpecGen == InitGen /\ [][NextGen]_vars

----------------------------------------------------------------------------
(* Types: the read emitted for a type, its Rust type, the shape of a constant *)

\* a t_type: its kind, the forward flag of a typedef, and the types it is
\* made of (the target of a typedef, the element types of a container)
TType(kind, fwd, args) == [kind |-> kind, fwd |-> fwd, args |-> args]

BaseKinds == {"string", "binary", "uuid", "bool", "i8", "i16", "i32", "i64", "double"}
NamedKinds == {"enum", "struct", "xception"}
is_base_type(t) == t.kind \in BaseKinds \cup {"void"}
is_typedef(t) == t.kind = "typedef"

\* t_type::get_true_type: the type under every typedef layer
RECURSIVE get_true_type(_)
get_true_type(t) == IF is_typedef(t) THEN get_true_type(t.args[1]) ELSE t

\* the value a read builds: the protocol or codec call, whether it is wrapped
\* in Box::new, and the reads of the elements of a container
ReadCall(call, boxed, elems) == [call |-> call, boxed |-> boxed, elems |-> elems]

RECURSIVE render_type_sync_read(_, _)
render_type_sync_read(t, is_boxed) ==
  IF is_base_type(t)
  THEN ReadCall(CASE t.kind = "binary" -> "i_prot.read_bytes"
                  [] t.kind = "double" -> "OrderedFloat::from(i_prot.read_double)"
                  [] OTHER -> "i_prot.read_" \o t.kind,
                FALSE, <<>>)
  ELSE IF is_typedef(t) THEN render_type_sync_read(t.args[1], t.fwd)
  ELSE IF t.kind \in NamedKinds
  THEN ReadCall("read_from_in_protocol", is_boxed, <<>>)
  ELSE ReadCall("i_prot.read_" \o t.kind \o "_begin", FALSE,
                [i \in 1..Len(t.args) |-> render_type_sync_read(t.args[i], FALSE)])

\* the Rust type: its name, whether it is Box<name>, its type arguments
RustType(name, box, args) == [name |-> name, box |-> box, args |-> args]

\* a TType carries no name: the Rust name of a typedef is written "symbolic",
\* that of an enum, struct or exception is its kind
RECURSIVE to_rust_type(_)
to_rust_type(t) ==
  IF is_base_type(t)
  THEN RustType(CASE t.kind = "void" -> "()"
                  [] t.kind = "string" -> "String"
                  [] t.kind = "binary" -> "Vec<u8>"
                  [] t.kind = "uuid" -> "uuid::Uuid"
                  [] t.kind = "double" -> "OrderedFloat<f64>"
                  [] OTHER -> t.kind,
                FALSE, <<>>)
  ELSE IF is_typedef(t) THEN RustType("symbolic", t.fwd, <<>>)
  ELSE IF t.kind \in NamedKinds THEN RustType(t.kind, FALSE, <<>>)
  ELSE RustType(CASE t.kind = "map" -> "BTreeMap"
                  [] t.kind = "set" -> "BTreeSet"
                  [] t.kind = "list" -> "Vec",
                FALSE, [i \in 1..Len(t.args) |-> to_rust_type(t.args[i])])

\* a decision that keeps a string constant out of the inline shape
simple_const_scalars_only(t) ==
  get_true_type(t).kind \in {"bool", "i8", "i16", "i32", "i64"}

can_generate_simple_const(t) ==
  LET actual_type == get_true_type(t)
  IN IF is_base_type(actual_type) THEN actual_type.kind # "double" ELSE FALSE

can_generate_const_holder(t) ==
  LET actual_type == get_true_type(t)
  IN ~can_generate_simple_const(actual_type) /\ actual_type.kind # "service"

\* generate_const: which of render_const_value and render_const_value_holder runs
generate_const_shape(t) ==
  IF can_generate_simple_const(t) THEN "pub const"
  ELSE IF can_generate_const_holder(t) THEN "const_value holder"
  ELSE "throw"

----------------------------------------------------------------------------
(* Scenario: a type of the IDL is rendered *)

LeafTypes == {TType(k, FALSE, <<>>) : k \in BaseKinds \cup NamedKinds}
\* key types of the maps of the scenario: two base types and a forward typedef
MapKeyTypes ==
  {TType("i32", FALSE, <<>>), TType("string", FALSE, <<>>),
   TType("typedef", TRUE, <<TType("struct", FALSE, <<>>)>>)}

\* a forward typedef stands for a name used before its definition, which is
\* the name of a struct, an enum, an exception or a typedef
RECURSIVE TTypes(_)
TTypes(d) ==
  IF d = 0 THEN LeafTypes
  ELSE LET sub == TTypes(d - 1)
       IN sub
          \cup {TType("typedef", FALSE, <<t>>) : t \in sub}
          \cup {TType("typedef", TRUE, <<t>>) :
                  t \in {u \in sub : u.kind \in NamedKinds
                                     \/ (is_typedef(u) /\ ~u.fwd)}}
          \cup {TType("list", FALSE, <<t>>) : t \in sub}
          \cup {TType("set", FALSE, <<t>>) : t \in sub}
          \cup {TType("map", FALSE, <<k, t>>) : k \in MapKeyTypes, t \in sub}

InitType ==
  /\ pc = "start"
  /\ PipeIdle
  /\ origin = "none"
  /\ tstruct = [name |-> "", members |-> <<>>]
  /\ struct_type = "T_REGULAR"
  /\ self = <<>>
  /\ wire = <<>>
  /\ ret = Result("none", <<>>, 0, "", <<>>)
  /\ RpcIdle
  /\ DispatchIdle
  /\ GenIdle
  /\ t_type \in TTypes(MaxTypeDepth)
  /\ read_call = <<>>
  /\ rust_type = <<>>
  /\ const_shape = ""
  /\ field_ids = <<>>
  /\ safe_ids = <<>>
  /\ derives = <<>>

\* a field, union member or element of t_type is declared and read
RenderTypeSyncRead ==
  /\ read_call = <<>>
  /\ read_call' = render_type_sync_read(t_type, FALSE)
  /\ rust_type' = to_rust_type(t_type)
  /\ UNCHANGED <<pc, origin, codecVars, rpcVars, dispatchVars, genVars, t_type, const_shape, field_ids, safe_ids,
                 derives, pipeVars>>

\* generate_const of a constant of t_type
GenerateConst ==
  /\ const_shape = ""
  /\ const_shape' = generate_const_shape(t_type)
  /\ UNCHANGED <<pc, origin, codecVars, rpcVars, dispatchVars, genVars, t_type, read_call,
                 rust_type, field_ids, safe_ids, derives, pipeVars>>

NextType == RenderTypeSyncRead \/ GenerateConst

SpecType == InitType /\ [][NextType]_vars

----------------------------------------------------------------------------
(* rust_safe_field_id over the whole of int32_t *)

INT32_MIN == -I32_MAX - 1

\* the digits of |n|, which for INT32_MIN no int holds
magnitude_digits(n) ==
  IF n = INT32_MIN THEN to_string(I32_MAX \div 10) \o <<DigitChars[(I32_MAX % 10) + 2]>>
  ELSE to_string(abs(n))

\* abs(int): the absolute value where an int holds it; abs(INT32_MIN) is
\* undefined, a build gives the operand back (the negation wraps) or any
\* other int, of which zero and the largest int stand here
std_abs(id) ==
  IF id = INT32_MIN THEN {INT32_MIN, 0, I32_MAX} ELSE {abs(id)}

\* std::to_string(int): a minus sign, then the digits
std_to_string(n) ==
  IF n < 0 THEN <<"-">> \o magnitude_digits(n) ELSE to_string(n)

\* the strings rust_safe_field_id(id) can return
safe_field_id_outcomes(id) ==
  {LET id_str == std_to_string(a)
   IN IF id >= 0 THEN id_str ELSE <<"n", "e", "g">> \o id_str
   : a \in std_abs(id)}

\* field ids: the ends of int32_t, their neighbours, and the small ones
FieldIdSet == {INT32_MIN, INT32_MIN + 1, -10, 10, I32_MAX - 1, I32_MAX} \cup (-MaxId..MaxId)

InitFieldId ==
  /\ pc = "start"
  /\ PipeIdle
  /\ origin = "none"
  /\ tstruct = [name |-> "", members |-> <<>>]
  /\ struct_type = "T_REGULAR"
  /\ self = <<>>
  /\ wire = <<>>
  /\ ret = Result("none", <<>>, 0, "", <<>>)
  /\ RpcIdle
  /\ DispatchIdle
  /\ GenIdle
  /\ t_type = [kind |-> "void", fwd |-> FALSE, args |-> <<>>]
  /\ read_call = <<>>
  /\ rust_type = <<>>
  /\ const_shape = ""
  /\ field_ids \in FieldIdSet \X FieldIdSet
  /\ safe_ids = <<>>
  /\ derives = <<>>

\* rust_safe_field_id is called for the two ids
RustSafeFieldId ==
  /\ safe_ids = <<>>
  /\ derives = <<>>
  /\ safe_ids' \in safe_field_id_outcomes(field_ids[1]) \X safe_field_id_outcomes(field_ids[2])
  /\ UNCHANGED <<pc, origin, codecVars, rpcVars, dispatchVars, genVars, t_type, read_call,
                 rust_type, const_shape, field_ids, derives, pipeVars>>

NextFieldId == RustSafeFieldId

SpecFieldId == InitFieldId /\ [][NextFieldId]_vars

----------------------------------------------------------------------------
(* The derive attribute of an emitted struct *)

\* a derive list that has Default whenever every member is optional in effect
derive_by_effective_req(ts, stype) ==
  <<"Clone", "Debug">>
  \o (IF \A i \in 1..Len(ts.members) : is_optional(actual_field_req(ts.members[i], stype))
      THEN <<"Default">> ELSE <<>>)
  \o <<"Eq", "Hash", "Ord", "PartialEq", "PartialOrd">>

render_struct_definition(ts, stype) ==
  LET members == ts.members
      need_default == /\ stype \in {"T_REGULAR", "T_EXCEPTION"}
                      /\ \A i \in 1..Len(members) : is_optional(members[i].req)
  IN <<"Clone", "Debug">> \o (IF need_default THEN <<"Default">> ELSE <<>>)
     \o <<"Eq", "Hash", "Ord", "PartialEq", "PartialOrd">>

\* the structs render_struct is called for: the structs and exceptions of the
\* IDL, the args struct of a function, and its result struct
StructsOfFlavor(stype) ==
  IF stype = "T_RESULT"
  THEN {render_service_call_result_value_struct(tf) : tf \in Functions}
  ELSE {[name |-> "Point", members |-> m] : m \in MemberLists}

InitStructDefinition ==
  /\ pc = "start"
  /\ PipeIdle
  /\ origin = "none"
  /\ struct_type \in {"T_REGULAR", "T_EXCEPTION", "T_ARGS", "T_RESULT"}
  /\ tstruct \in StructsOfFlavor(struct_type)
  /\ self = <<>>
  /\ wire = <<>>
  /\ ret = Result("none", <<>>, 0, "", <<>>)
  /\ RpcIdle
  /\ DispatchIdle
  /\ GenIdle
  /\ FnIdle

RenderStructDefinition ==
  /\ derives = <<>>
  /\ derives' = render_struct_definition(tstruct, struct_type)
  /\ UNCHANGED <<pc, origin, codecVars, rpcVars, dispatchVars, genVars, t_type, read_call,
                 rust_type, const_shape, field_ids, safe_ids, pipeVars>>

NextStructDefinition == RenderStructDefinition

SpecStructDefinition == InitStructDefinition /\ [][NextStructDefinition]_vars

----------------------------------------------------------------------------
(* TNamedPipeServer (lib/cpp/src/thrift/transport/TPipeServer.cpp): one     *)
(* thread calls acceptImpl, one calls interrupt, one calls getPipeHandle;   *)
(* the overlapped submission thread runs the work items; clients connect    *)

INVALID_HANDLE_VALUE == 0
NoClient == 0

\* a pipe instance is "created" by CreateNamedPipe; ConnectNamedPipe leaves it
\* "pending" until a client connects ("connected") or the I/O is cancelled
\* ("aborted"); "early" is an instance a client reached before
\* ConnectNamedPipe was called, "closed" one whose handle was closed
IoStates == {"created", "early", "pending", "connected", "aborted", "closed"}

\* the test interrupt makes before it stops the server and cancels the connect
interrupt_skips(Pipe) == FALSE

interrupt_cancels(Pipe) == Pipe # INVALID_HANDLE_VALUE

\* CancelIo on a handle: a pending operation ends as aborted
cancel_io(st) == IF st = "pending" THEN "aborted" ELSE st

\* new TPipe(Pipe_): the transport made for a connected pipe takes the handle
\* over, Pipe_ is left without one
TPipe(Pipe, id) == [client |-> id, h |-> Pipe, Pipe_ |-> INVALID_HANDLE_VALUE]

\* client.swap(cached_client_) on an empty local client
copy_client(cached) == [client |-> cached, cached_client_ |-> cached]

swap_client(cached) == [client |-> cached, cached_client_ |-> NoClient]

\* the test initiateNamedConnect starts with
initiate_always(stopping) == FALSE

initiate_returns(stopping) == stopping

\* the accesses of a thread to cached_client_ and Pipe_ that it makes while it
\* does not hold pipe_protect_, added to the ones seen so far
Touch(thread, holder, accesses) ==
  IF holder = thread THEN unlocked
  ELSE unlocked \cup {[thread |-> thread, variable |-> a[1], line |-> a[2]] : a \in accesses}

\* the end of an acceptImpl call: a client returned or an exception thrown
AcceptEnd(kind, client) ==
  /\ accept_ret' = [kind |-> kind, client |-> client, stopping |-> stopping_, armed |-> armed]
  /\ returned' = IF kind = "client" THEN Append(returned, client) ELSE returned
  /\ watch' = IF watch.on /\ watch.outcome = "none" THEN [watch EXCEPT !.outcome = kind]
              ELSE watch
  /\ a_client' = [client |-> NoClient, ends |-> ""]
  /\ a_pc' = "idle"

notPipeVars == <<pc, origin, codecVars, rpcVars, dispatchVars, genVars, fnVars>>

\* the state the constructor leaves: a pipe instance whose connect is pending,
\* or a client that reached the instance first and is cached
InitPipe ==
  /\ pc = "start"
  /\ origin = "none"
  /\ tstruct = [name |-> "", members |-> <<>>]
  /\ struct_type = "T_REGULAR"
  /\ self = <<>>
  /\ wire = <<>>
  /\ ret = Result("none", <<>>, 0, "", <<>>)
  /\ RpcIdle
  /\ DispatchIdle
  /\ GenIdle
  /\ FnIdle
  /\ stopping_ = FALSE
  /\ pipe_protect_ = "free"
  /\ cancelOverlap_ = [h |-> INVALID_HANDLE_VALUE]
  /\ workList = <<>>
  /\ a_pc = "idle"
  /\ a_client = [client |-> NoClient, ends |-> ""]
  /\ i_pc = "idle"
  /\ accept_ret = [kind |-> "none", client |-> NoClient, stopping |-> FALSE, armed |-> {}]
  /\ returned = <<>>
  /\ unlocked = {}
  /\ armed = {}
  /\ watch = [on |-> FALSE, outcome |-> "none", h |-> 0]
  /\ \/ /\ Pipe_ = 1
        /\ cached_client_ = NoClient
        /\ io = <<"pending">>
        /\ connectOverlap_ = [h |-> 1, success |-> FALSE, last_error |-> "ERROR_IO_PENDING"]
        /\ counters = [pipes |-> 1, clients |-> 0, accepts |-> 0, interrupts |-> 0]
     \/ /\ Pipe_ = TPipe(1, 1).Pipe_
        /\ cached_client_ = TPipe(1, 1).client
        /\ io = <<"connected">>
        /\ connectOverlap_ = [h |-> 1, success |-> FALSE, last_error |-> "ERROR_PIPE_CONNECTED"]
        /\ counters = [pipes |-> 1, clients |-> 1, accepts |-> 0, interrupts |-> 0]

\* acceptImpl, line 286: the lock is taken
AcceptBegin ==
  /\ a_pc = "idle"
  /\ counters.accepts < MaxAccepts
  /\ pipe_protect_ = "free"
  /\ pipe_protect_' = "accept"
  /\ counters' = [counters EXCEPT !.accepts = @ + 1]
  /\ armed' = {}
  /\ a_pc' = "locked"
  /\ UNCHANGED <<notPipeVars, stopping_, cached_client_, Pipe_, connectOverlap_, cancelOverlap_,
                 workList, io, a_client, i_pc, accept_ret, returned, unlocked, watch>>

\* acceptImpl, lines 287-296: the cached client is moved to the local client,
\* or the lock is left
AcceptCached ==
  /\ a_pc = "locked"
  /\ unlocked' = Touch("acceptImpl", IF pipe_protect_ = "accept" THEN "acceptImpl" ELSE "",
                       {<<"cached_client_", 287>>, <<"cached_client_", 290>>})
  /\ IF cached_client_ # NoClient
     THEN /\ a_client' = [client |-> swap_client(cached_client_).client, ends |-> "client"]
          /\ cached_client_' = swap_client(cached_client_).cached_client_
          /\ a_pc' = "init"
          /\ UNCHANGED pipe_protect_
     ELSE /\ pipe_protect_' = "free"
          /\ a_pc' = "check"
          /\ UNCHANGED <<a_client, cached_client_>>
  /\ UNCHANGED <<notPipeVars, stopping_, Pipe_, connectOverlap_, cancelOverlap_, workList, io,
                 i_pc, accept_ret, returned, counters, armed, watch>>

\* acceptImpl, lines 298-301: Pipe_.h is tested after the lock was left
AcceptCheckHandle ==
  /\ a_pc = "check"
  /\ unlocked' = Touch("acceptImpl", IF pipe_protect_ = "accept" THEN "acceptImpl" ELSE "",
                       {<<"Pipe_", 298>>})
  /\ IF Pipe_ = INVALID_HANDLE_VALUE
     THEN AcceptEnd("NOT_OPEN", NoClient)
     ELSE /\ a_pc' = "wait"
          /\ UNCHANGED <<accept_ret, returned, watch, a_client>>
  /\ UNCHANGED <<notPipeVars, stopping_, cached_client_, Pipe_, pipe_protect_, connectOverlap_,
                 cancelOverlap_, workList, io, i_pc, counters, armed>>

\* acceptImpl, lines 313 and 334-340: GetOverlappedResult(Pipe_.h, .., TRUE)
\* returns once the connect is no longer pending
AcceptGetOverlappedResult ==
  /\ a_pc = "wait"
  /\ io[Pipe_] # "pending"
  /\ unlocked' = Touch("acceptImpl", IF pipe_protect_ = "accept" THEN "acceptImpl" ELSE "",
                       {<<"Pipe_", 313>>})
  /\ IF io[Pipe_] = "connected"
     THEN /\ a_pc' = "got"
          /\ UNCHANGED <<accept_ret, returned, watch, a_client>>
     ELSE IF io[Pipe_] = "aborted"
     THEN /\ a_pc' = "aborted"
          /\ UNCHANGED <<accept_ret, returned, watch, a_client>>
     ELSE AcceptEnd("NOT_OPEN", NoClient)
  /\ UNCHANGED <<notPipeVars, stopping_, cached_client_, Pipe_, pipe_protect_, connectOverlap_,
                 cancelOverlap_, workList, io, i_pc, counters, armed>>

\* acceptImpl, lines 314-327: under the lock a TPipe is made of Pipe_, which
\* takes the handle out of Pipe_; the constructor can throw
AcceptConnected ==
  /\ a_pc = "got"
  /\ pipe_protect_ = "free"
  /\ pipe_protect_' = "accept"
  /\ unlocked' = Touch("acceptImpl", "acceptImpl", {<<"Pipe_", 317>>})
  /\ \E constructed \in BOOLEAN :
       IF constructed
       THEN /\ a_client' = [client |-> TPipe(Pipe_, counters.clients + 1).client,
                            ends |-> "client"]
            /\ counters' = [counters EXCEPT !.clients = @ + 1]
            /\ UNCHANGED io
       ELSE /\ a_client' = [client |-> NoClient, ends |-> "CLIENT_DISCONNECT"]
            /\ io' = [io EXCEPT ![Pipe_] = "closed"]
            /\ UNCHANGED counters
  /\ Pipe_' = TPipe(Pipe_, counters.clients + 1).Pipe_
  /\ a_pc' = "init"
  /\ UNCHANGED <<notPipeVars, stopping_, cached_client_, connectOverlap_, cancelOverlap_,
                 workList, i_pc, accept_ret, returned, armed, watch>>

\* acceptImpl, lines 336-339: the connect was aborted; the lock is taken and
\* left, INTERRUPTED is thrown
AcceptInterrupted ==
  /\ a_pc = "aborted"
  /\ pipe_protect_ = "free"
  /\ AcceptEnd("INTERRUPTED", NoClient)
  /\ UNCHANGED <<notPipeVars, stopping_, cached_client_, Pipe_, pipe_protect_, connectOverlap_,
                 cancelOverlap_, workList, io, i_pc, unlocked, counters, armed>>

\* initiateNamedConnect, lines 243-254, called by acceptImpl under its lock:
\* nothing when stopping; else a pipe instance is created (which fails when
\* the instances are used up) and the connect work item is handed to the
\* submission thread
InitiateNamedConnect ==
  /\ a_pc = "init"
  /\ unlocked' = Touch("acceptImpl", IF pipe_protect_ = "accept" THEN "acceptImpl" ELSE "",
                       {<<"Pipe_", 395>>, <<"Pipe_", 253>>})
  /\ IF initiate_returns(stopping_)
     THEN /\ a_pc' = "ret"
          /\ UNCHANGED <<Pipe_, io, counters, connectOverlap_, workList, armed, pipe_protect_,
                         accept_ret, returned, watch, a_client>>
     ELSE IF counters.pipes >= MaxPipes
     THEN /\ Pipe_' = INVALID_HANDLE_VALUE
          /\ pipe_protect_' = "free"
          /\ AcceptEnd("NOT_OPEN", NoClient)
          /\ UNCHANGED <<io, counters, connectOverlap_, workList, armed>>
     ELSE /\ Pipe_' = counters.pipes + 1
          /\ io' = Append(io, "created")
          /\ counters' = [counters EXCEPT !.pipes = @ + 1]
          /\ connectOverlap_' = [h |-> counters.pipes + 1, success |-> FALSE, last_error |-> ""]
          /\ workList' = Append(workList, "CONNECT")
          /\ armed' = {"pipe created", "connect queued"}
          /\ a_pc' = "submitted"
          /\ UNCHANGED <<pipe_protect_, accept_ret, returned, watch, a_client>>
  /\ UNCHANGED <<notPipeVars, stopping_, cached_client_, cancelOverlap_, i_pc>>

\* the submission thread runs the first work item: ConnectNamedPipe on the
\* handle of the connect item (pending; or a client is there already; or it
\* came and went, which is another error), CancelIo on the handle of the
\* cancel item
ProcessWorkItem ==
  /\ workList # <<>>
  /\ workList' = Tail(workList)
  /\ IF Head(workList) = "CONNECT"
     THEN LET h == connectOverlap_.h
          IN \/ /\ io[h] = "created"
                /\ io' = [io EXCEPT ![h] = "pending"]
                /\ connectOverlap_' = [connectOverlap_ EXCEPT !.last_error = "ERROR_IO_PENDING"]
             \/ /\ io[h] = "early"
                /\ io' = [io EXCEPT ![h] = "connected"]
                /\ \/ connectOverlap_' = [connectOverlap_ EXCEPT !.success = TRUE]
                   \/ connectOverlap_' =
                        [connectOverlap_ EXCEPT !.last_error = "ERROR_PIPE_CONNECTED"]
             \/ /\ io[h] = "early"
                /\ io' = [io EXCEPT ![h] = "closed"]
                /\ connectOverlap_' = [connectOverlap_ EXCEPT !.last_error = "ERROR_NO_DATA"]
     ELSE /\ io' = [io EXCEPT ![cancelOverlap_.h] = cancel_io(@)]
          /\ UNCHANGED connectOverlap_
  /\ UNCHANGED <<notPipeVars, stopping_, cached_client_, Pipe_, pipe_protect_, cancelOverlap_,
                 a_pc, a_client, i_pc, accept_ret, returned, unlocked, counters, armed, watch>>

\* initiateNamedConnect, lines 259-281, once addWorkItem returned: a client
\* that is connected already is cached, a pending connect is left to the next
\* acceptImpl, any other error is thrown
InitiateNamedConnectDone ==
  /\ a_pc = "submitted"
  /\ workList = <<>>
  /\ unlocked' = Touch("acceptImpl", IF pipe_protect_ = "accept" THEN "acceptImpl" ELSE "",
                       {<<"cached_client_", 261>>, <<"Pipe_", 261>>})
  /\ IF connectOverlap_.success \/ connectOverlap_.last_error = "ERROR_PIPE_CONNECTED"
     THEN /\ cached_client_' = TPipe(Pipe_, counters.clients + 1).client
          /\ counters' = [counters EXCEPT !.clients = @ + 1]
          /\ Pipe_' = TPipe(Pipe_, counters.clients + 1).Pipe_
          /\ a_pc' = "ret"
          /\ UNCHANGED <<pipe_protect_, accept_ret, returned, watch, a_client>>
     ELSE IF connectOverlap_.last_error = "ERROR_IO_PENDING"
     THEN /\ a_pc' = "ret"
          /\ UNCHANGED <<cached_client_, counters, Pipe_, pipe_protect_, accept_ret, returned,
                         watch, a_client>>
     ELSE /\ pipe_protect_' = "free"
          /\ AcceptEnd("NOT_OPEN", NoClient)
          /\ UNCHANGED <<cached_client_, counters, Pipe_>>
  /\ UNCHANGED <<notPipeVars, stopping_, connectOverlap_, cancelOverlap_, workList, io, i_pc,
                 armed>>

\* acceptImpl, lines 294, 326 and 331: the lock is left, the client is
\* returned or CLIENT_DISCONNECT is thrown
AcceptReturn ==
  /\ a_pc = "ret"
  /\ pipe_protect_' = "free"
  /\ AcceptEnd(a_client.ends, a_client.client)
  /\ UNCHANGED <<notPipeVars, stopping_, cached_client_, Pipe_, connectOverlap_, cancelOverlap_,
                 workList, io, i_pc, unlocked, counters, armed>>

\* interrupt, lines 117-123: under the lock the cached client is dropped and,
\* when the pipe handle is valid, stopping_ is set and the cancel work item is
\* handed to the submission thread
Interrupt ==
  /\ i_pc = "idle"
  /\ counters.interrupts < MaxInterrupts
  /\ pipe_protect_ = "free"
  /\ counters' = [counters EXCEPT !.interrupts = @ + 1]
  /\ unlocked' = Touch("interrupt", "interrupt", {<<"cached_client_", 118>>, <<"Pipe_", 119>>,
                                                 <<"Pipe_", 121>>})
  /\ cached_client_' = NoClient
  /\ watch' = IF /\ ~watch.on
                 /\ a_pc = "wait"
                 /\ Pipe_ # INVALID_HANDLE_VALUE
                 /\ io[Pipe_] = "pending"
              THEN [on |-> TRUE, outcome |-> "none", h |-> Pipe_]
              ELSE watch
  /\ IF interrupt_cancels(Pipe_)
     THEN /\ stopping_' = TRUE
          /\ cancelOverlap_' = [h |-> Pipe_]
          /\ workList' = Append(workList, "CANCELIO")
          /\ pipe_protect_' = "interrupt"
          /\ i_pc' = "submitted"
     ELSE UNCHANGED <<stopping_, cancelOverlap_, workList, pipe_protect_, i_pc>>
  /\ UNCHANGED <<notPipeVars, Pipe_, connectOverlap_, io, a_pc, a_client, accept_ret, returned,
                 armed>>

\* interrupt, line 125: addWorkItem returned, the lock is left
InterruptEnd ==
  /\ i_pc = "submitted"
  /\ workList = <<>>
  /\ pipe_protect_' = "free"
  /\ i_pc' = "idle"
  /\ UNCHANGED <<notPipeVars, stopping_, cached_client_, Pipe_, connectOverlap_, cancelOverlap_,
                 workList, io, a_pc, a_client, accept_ret, returned, unlocked, counters, armed,
                 watch>>

\* getPipeHandle, line 129, called by a third thread
getPipeHandle ==
  /\ unlocked' = Touch("getPipeHandle", "", {<<"Pipe_", 129>>})
  /\ unlocked' # unlocked
  /\ UNCHANGED <<notPipeVars, stopping_, cached_client_, Pipe_, pipe_protect_, connectOverlap_,
                 cancelOverlap_, workList, io, a_pc, a_client, i_pc, accept_ret, returned,
                 counters, armed, watch>>

\* a client opens the pipe: it completes the pending connect of an instance,
\* or reaches an instance ConnectNamedPipe was not yet called for
ClientConnects ==
  /\ \E h \in 1..Len(io) :
       /\ io[h] \in {"created", "pending"}
       /\ io' = [io EXCEPT ![h] = IF @ = "created" THEN "early" ELSE "connected"]
  /\ UNCHANGED <<notPipeVars, stopping_, cached_client_, Pipe_, pipe_protect_, connectOverlap_,
                 cancelOverlap_, workList, a_pc, a_client, i_pc, accept_ret, returned, unlocked,
                 counters, armed, watch>>

AcceptStep ==
  \/ AcceptBegin \/ AcceptCached \/ AcceptCheckHandle \/ AcceptGetOverlappedResult
  \/ AcceptConnected \/ AcceptInterrupted \/ InitiateNamedConnect
  \/ InitiateNamedConnectDone \/ AcceptReturn

InterruptStep == Interrupt \/ InterruptEnd

NextPipe == AcceptStep \/ InterruptStep \/ ProcessWorkItem \/ getPipeHandle \/ ClientConnects

SpecPipe == InitPipe /\ [][NextPipe]_vars

\* every thread that can run does run in the end; a client need never come
SpecPipeLive ==
  /\ SpecPipe
  /\ WF_vars(AcceptStep)
  /\ WF_vars(InterruptStep)
  /\ WF_vars(ProcessWorkItem)

----------------------------------------------------------------------------
(* Properties of the struct codec *)

Members == tstruct.members
Idx == 1..Len(Members)
Req(i) == actual_field_req(Members[i], struct_type)

\* the fields of a stream before its Stop
Fields(stream) == SelectSeq(stream, LAMBDA w : w.ty # "TType::Stop")
WireKeys(stream) == {stream[i].id : i \in {j \in 1..Len(stream) : stream[j].ty # "TType::Stop"}}
UnknownIds(stream) ==
  LET f == SelectSeq(stream, LAMBDA w : w.ty # "TType::Stop"
                                        /\ w.id \notin DeclaredKeys(Members))
  IN [i \in 1..Len(f) |-> f[i].id]
\* payload of the last field of the stream that carries id k
LastVal(stream, k) ==
  LET at == {j \in 1..Len(stream) : stream[j].ty # "TType::Stop" /\ stream[j].id = k}
  IN stream[CHOOSE j \in at : \A h \in at : h <= j].val

\* v leaves no opt-in-req-out member of a base type absent (an absent one is
\* decoded to the zero default, see C4)
NothingDefaulted ==
  \A i \in Idx : (Req(i) = "T_OPT_IN_REQ_OUT" /\ Members[i].type # "struct")
                    => is_some(self[i])

\* C1: reading what write produced for a regular struct returns Ok(v); stated
\* for the values v that leave nothing to the zero default
C1_StructRoundTrip ==
  (pc = "done" /\ origin = "written" /\ struct_type = "T_REGULAR" /\ NothingDefaulted)
    => (ret.kind = "Ok" /\ ret.val = self)

\* C2: fields with undeclared ids put into the written stream are each skipped
\* once, reach no slot, and the read still returns v (for the values v that
\* leave nothing to the zero default)
C2_UnknownFieldsSkipped ==
  (pc = "done" /\ origin = "injected" /\ NothingDefaulted)
    => /\ ret.skipped = UnknownIds(wire)
       /\ ret.kind = "Ok"
       /\ ret.val = self

\* C3: a stream without the id of a Required field is never read as Ok; the
\* read fails in verify_required_field_exists, naming a required member the
\* stream lacks
C3_RequiredVerified ==
  (pc = "done" /\ \E i \in Idx : Members[i].req = "T_REQUIRED"
                                   /\ Members[i].key \notin WireKeys(wire))
    => /\ ret.kind = "Err::Protocol"
       /\ ret.msg = "missing required field"
       /\ ret.missing \in {i \in Idx : Members[i].req = "T_REQUIRED"
                                        /\ Members[i].key \notin WireKeys(wire)}

\* C4: an OptInReqOut member the stream lacks decodes to Some(zero) for a base
\* type and to None for a struct type; one the stream carries decodes to the
\* value carried
C4_OptInReqOutDecoding ==
  (pc = "done" /\ ret.kind = "Ok")
    => \A i \in Idx :
         Req(i) = "T_OPT_IN_REQ_OUT"
           => ret.val[i] = IF Members[i].key \in WireKeys(wire)
                           THEN Some(LastVal(wire, Members[i].key))
                           ELSE IF Members[i].type = "struct" THEN None ELSE Some(0)

\* C5: an Optional member of a regular struct decodes to Some(x) iff the stream
\* carries its id with x and to None iff it does not, and a struct of optional
\* members only is always read as Ok
C5_OptionalDecoding ==
  (pc = "done" /\ struct_type = "T_REGULAR")
    => /\ ret.kind = "Ok"
            => \A i \in Idx :
                 Req(i) = "T_OPTIONAL"
                   => ret.val[i] = IF Members[i].key \in WireKeys(wire)
                                   THEN Some(LastVal(wire, Members[i].key))
                                   ELSE None
       /\ (\A i \in Idx : Req(i) = "T_OPTIONAL") => ret.kind = "Ok"

\* C6: an args struct lacking any declared argument on the wire fails the
\* required-field verification, and its write puts every member on the wire
C6_ArgsStrict ==
  struct_type = "T_ARGS"
    => /\ (pc = "done" /\ \E i \in Idx : Members[i].key \notin WireKeys(wire))
            => (ret.kind = "Err::Protocol" /\ ret.msg = "missing required field")
       /\ origin = "written" => \A i \in Idx : Members[i].key \in WireKeys(wire)

----------------------------------------------------------------------------
(* Properties of the union codec *)

\* C7: a variant is written as one field carrying its id, then Stop, and is
\* read back as the same variant
C7_UnionRoundTrip ==
  (struct_type = "T_UNION" /\ origin = "written")
    => /\ Len(wire) = 2
       /\ wire[1].id = Members[self.arm].key /\ wire[1].val = self.val
       /\ wire[2] = Stop
       /\ pc = "done" => (ret.kind = "Ok" /\ ret.val = self)

\* C8: a union read is Ok only for a stream of exactly one field; no field is
\* the empty-union error, two or more fields the multiple-fields error
C8_UnionExactlyOne ==
  (struct_type = "T_UNION" /\ pc = "done")
    => /\ ret.kind = "Ok" => Len(Fields(wire)) = 1
       /\ Len(Fields(wire)) = 0
            => (ret.kind = "Err::Protocol" /\ ret.msg = "received empty union from remote")
       /\ Len(Fields(wire)) >= 2
            => (ret.kind = "Err::Protocol"
                /\ ret.msg = "received multiple fields for union from remote")

\* positions on the wire of the fields whose id the union declares
KnownOnWire ==
  {i \in 1..Len(Fields(wire)) : \E m \in Idx : Members[m].key = wire[i].id}
FirstKnown == CHOOSE i \in KnownOnWire : \A j \in KnownOnWire : i <= j
\* positions on the wire of the fields a match arm of a member accepts
MatchedOnWire ==
  {i \in 1..Len(Fields(wire)) : MatchArm(Members, wire[i].id) # 0}
FirstMatched == CHOOSE i \in MatchedOnWire : \A j \in MatchedOnWire : i <= j

\* C20 as claimed: a union read that receives more than one field with a
\* declared id returns the variant of the first of them
C20_FirstVariantReturned ==
  (struct_type = "T_UNION" /\ pc = "done" /\ Cardinality(KnownOnWire) >= 2)
    => /\ ret.kind = "Ok"
       /\ Members[ret.val.arm].key = wire[FirstKnown].id
       /\ ret.val.val = wire[FirstKnown].val

\* C20 as the code has it: ret is set only by the first field a member's arm
\* accepts and later fields do not replace it, but it is returned only when
\* that field is the only one received; a read of two or more fields returns
\* a protocol error and no variant
C20_FirstVariantKeptNotReturned ==
  (struct_type = "T_UNION" /\ pc = "done")
    => /\ Len(Fields(wire)) >= 2 => ret.kind = "Err::Protocol"
       /\ \A l \in UnionReadLoop(Members, None, 0, <<>>, wire) :
            is_some(l.ret)
              => /\ MatchedOnWire # {}
                 /\ unwrap(l.ret).arm = MatchArm(Members, wire[FirstMatched].id)
                 /\ \E x \in TypeRead(Members[unwrap(l.ret).arm].type, wire[FirstMatched]) :
                      x.ok /\ x.val = unwrap(l.ret).val
       /\ ret.kind = "Ok"
            => \E l \in UnionReadLoop(Members, None, 0, <<>>, wire) :
                 is_some(l.ret) /\ ret.val = unwrap(l.ret)

\* two fields with different declared ids were received and the read
\* returned the multiple-fields error
C20_Witness ==
  /\ struct_type = "T_UNION" /\ pc = "done"
  /\ Cardinality(KnownOnWire) >= 2
  /\ wire[1].id # wire[2].id
  /\ ret.kind = "Err::Protocol"
  /\ ret.msg = "received multiple fields for union from remote"

----------------------------------------------------------------------------
(* Properties of the service call *)

RMembers == render_service_call_result_value_struct(tfunc).members
RIdx == 1..Len(RMembers)
\* exception members the result struct the client read has present
Thrown == {i \in RIdx : RMembers[i].name # SERVICE_RESULT_VARIABLE /\ is_some(result.val[i])}
FirstThrown == CHOOSE i \in Thrown : \A j \in Thrown : i <= j
Returned == {i \in RIdx : RMembers[i].name = SERVICE_RESULT_VARIABLE /\ is_some(result.val[i])}
\* the client read a result struct and ran ok_or on it
RanOkOr == pc = "returned" /\ result.kind = "Ok"

\* C9 as claimed: ok_or gives the return value when it is present, and only
\* otherwise the first present exception, Ok(()) or MissingResult
C9_OkOrReturnFirst ==
  RanOkOr =>
    IF Returned # {}
    THEN client_ret = CRet("Ok", unwrap(result.val[CHOOSE i \in Returned : TRUE]), "")
    ELSE IF Thrown # {}
    THEN client_ret = CRet("Err::User", unwrap(result.val[FirstThrown]),
                           RMembers[FirstThrown].tname)
    ELSE IF tfunc.returntype = "void"
    THEN client_ret = CRet("Ok", 0, "()")
    ELSE client_ret = CRet("Err::Application", 0, "MissingResult")

\* C9 amended: ok_or gives the first present exception (in id order) as a user
\* error whether or not the return value is present; without an exception it
\* gives the return value if present, else Ok(()) for a void function, else
\* the MissingResult application error
C9_OkOrExceptionFirst ==
  RanOkOr =>
    IF Thrown # {}
    THEN client_ret = CRet("Err::User", unwrap(result.val[FirstThrown]),
                           RMembers[FirstThrown].tname)
    ELSE IF Returned # {}
    THEN client_ret = CRet("Ok", unwrap(result.val[CHOOSE i \in Returned : TRUE]), "")
    ELSE IF tfunc.returntype = "void"
    THEN client_ret = CRet("Ok", 0, "()")
    ELSE client_ret = CRet("Err::Application", 0, "MissingResult")

\* ok_or ran on a result struct with both the return value and an exception
C9_Witness ==
  RanOkOr /\ Returned # {} /\ Thrown # {} /\ client_ret.kind = "Err::User"

\* the handler returned a user error of a type the function declares
DeclaredUserError ==
  /\ origin = "processed"
  /\ ~tfunc.oneway
  /\ handler_ret.kind = "Err::User"
  /\ \E i \in 1..Len(tfunc.xceptions) : tfunc.xceptions[i].tname = handler_ret.tname

\* C10: for a declared user error the processor writes one Reply with the
\* incoming sequence number whose result struct carries that exception alone,
\* and the client returns that exception as a user error
C10_DeclaredUserException ==
  DeclaredUserError =>
    /\ Len(o_prot) = 1
    /\ o_prot[1].type = "TMessageType::Reply"
    /\ o_prot[1].seq = c_out[1].seq
    /\ Len(Fields(o_prot[1].body)) = 1
    /\ \E i \in 1..Len(tfunc.xceptions) :
         /\ tfunc.xceptions[i].tname = handler_ret.tname
         /\ o_prot[1].body[1].id = tfunc.xceptions[i].key
         /\ o_prot[1].body[1].val = handler_ret.val
    /\ pc = "returned" => client_ret = CRet("Err::User", handler_ret.val, handler_ret.tname)

\* the client received a message with the sequence number and the name of
\* its call
Answered ==
  /\ pc = "returned"
  /\ ~tfunc.oneway
  /\ o_prot # <<>>

ExceptionAnswered ==
  /\ Answered
  /\ o_prot[1].seq = sequence_number
  /\ o_prot[1].name = tfunc.name
  /\ o_prot[1].type = "TMessageType::Exception"

\* C11: on an Exception message with the expected sequence number and name the
\* client reads the application error and the message end and returns that
\* error, of the same kind, as Err(Application); it reads no result struct
C11_ExceptionMessage ==
  ExceptionAnswered =>
    /\ client_ret = CRet("Err::Application", 0, o_prot[1].body)
    /\ result.kind = "none"
    /\ i_ops = <<"read_message_begin", "read_application_error_from_in_protocol",
                 "read_message_end">>

\* the server answered the call with an UnknownMethod application error
C11_Witness ==
  /\ ExceptionAnswered
  /\ o_prot[1].body = "UnknownMethod"
  /\ client_ret = CRet("Err::Application", 0, "UnknownMethod")

\* the per-function process function of a oneway function ran
OnewayProcessed == tfunc.oneway /\ origin = "processed"

\* C12: for a oneway function the per-function process function writes nothing
\* to the output protocol on any handler outcome, returns Ok(()) when the
\* handler succeeded and an error when it failed; the client's call returned
\* Ok(()) after the send without reading from the input protocol
C12_OnewaySilence ==
  /\ OnewayProcessed =>
       /\ o_prot = <<>>
       /\ handler_ret.kind = "Ok" => p_ret = CRet("Ok", 0, "()")
       /\ handler_ret.kind # "Ok" => p_ret.kind \notin {"Ok", "none"}
  /\ (tfunc.oneway /\ pc = "returned" /\ c_out # <<>>) =>
       /\ client_ret = CRet("Ok", 0, "()")
       /\ i_ops = <<>>
       /\ result.kind = "none"

\* the handler of a oneway function failed with an application error
C12_Witness ==
  /\ OnewayProcessed
  /\ handler_ret.kind = "Err::Application"
  /\ p_ret.kind = "Err::Application"
  /\ client_ret = CRet("Ok", 0, "()")

\* the client is past the send half of a call
SendDone == pc \in {"sent", "returned"}
LastOp == o_ops[Len(o_ops)]

Rejected(k) ==
  /\ client_ret = CRet("Err::Application", 0, k)
  /\ result.kind = "none"
  /\ i_ops = <<"read_message_begin">>

\* C18: the recv checks the echoed sequence number, then the name, then the
\* message type, all before any payload is read: a mismatch is an error and
\* never a decoded result, and a result struct is read only from a Reply
\* with the sequence number and the name of the call
C18_RecvVerificationOrder ==
  Answered =>
    /\ o_prot[1].seq # sequence_number => Rejected("BadSequenceId")
    /\ (o_prot[1].seq = sequence_number /\ o_prot[1].name # tfunc.name)
         => Rejected("WrongMethodName")
    /\ (/\ o_prot[1].seq = sequence_number
        /\ o_prot[1].name = tfunc.name
        /\ o_prot[1].type \notin {"TMessageType::Exception", "TMessageType::Reply"})
         => Rejected("InvalidMessageType")
    /\ (result.kind # "none" \/ client_ret.kind \in {"Ok", "Err::User"})
         => /\ o_prot[1].seq = sequence_number
            /\ o_prot[1].name = tfunc.name
            /\ o_prot[1].type = "TMessageType::Reply"

\* a message with a stale sequence number, another name and another type
C18_Witness ==
  /\ Answered
  /\ o_prot[1].seq # sequence_number
  /\ o_prot[1].name # tfunc.name
  /\ o_prot[1].type = "TMessageType::Call"
  /\ Rejected("BadSequenceId")

----------------------------------------------------------------------------
(* Properties of the processor dispatch *)

\* the service and its ancestors, the service first
RECURSIVE Chain(_)
Chain(ts) == <<ts>> \o (IF ts.extends # <<>> THEN Chain(get_extends(ts)) ELSE <<>>)

Declares(svc, n) == \E i \in 1..Len(svc.functions) : svc.functions[i].name = n
\* position in the chain of the service declaring function n (1 is the service itself)
Declarer(n) == CHOOSE k \in 1..Len(Chain(tservice)) : Declares(Chain(tservice)[k], n)
Known(n) == \E k \in 1..Len(Chain(tservice)) : Declares(Chain(tservice)[k], n)
\* position of function n in the declarations of its service
DeclPos(n) ==
  CHOOSE i \in 1..Len(Chain(tservice)[Declarer(n)].functions) :
    Chain(tservice)[Declarer(n)].functions[i].name = n

\* the process function of each function name and the process functions type
\* of each service, as the emitted Rust names them
ProcessFunctionOf(n) ==
  CASE n = <<"a", "d", "d">> -> <<"p", "r", "o", "c", "e", "s", "s", "_", "a", "d", "d">>
    [] n = <<"g", "e", "t", "X">> -> <<"p", "r", "o", "c", "e", "s", "s", "_", "g", "e", "t", "_", "x">>
    [] n = <<"s", "u", "b">> -> <<"p", "r", "o", "c", "e", "s", "s", "_", "s", "u", "b">>
    [] n = <<"P", "i", "n", "g">> -> <<"p", "r", "o", "c", "e", "s", "s", "_", "p", "i", "n", "g">>
ProcessFunctionsOf(svc) ==
  <<"T", "C", "a", "l", "c">> \o SubSeq(svc.name, 6, Len(svc.name)) \o <<"P", "r", "o", "c", "e", "s", "s", "F", "u", "n", "c", "t", "i", "o", "n", "s">>

Arms == render_process_match_statements(tservice)
Delegations == render_sync_process_delegation_functions(tservice)

\* C13: a message whose name no function of the service or of an ancestor
\* has invokes nothing and gives the UnknownMethod application error carrying
\* the name; a known name invokes exactly the process function of that name
C13_UnknownMethod ==
  pc = "dispatched" =>
    IF Known(message_ident.name)
    THEN /\ Len(invoked) = 1
         /\ invoked[1].function = ProcessFunctionOf(message_ident.name)
    ELSE /\ invoked = <<>>
         /\ res = DRet("Err::Application", "UnknownMethod",
                       <<"u", "n", "k", "n", "o", "w", "n", " ", "m", "e", "t", "h", "o", "d", " ">> \o message_ident.name)

\* process read the snake-cased name of a declared function
C13_Witness ==
  /\ pc = "dispatched"
  /\ message_ident.name = <<"g", "e", "t", "_", "x">>
  /\ Known(<<"g", "e", "t", "X">>)
  /\ invoked = <<>>
  /\ res.tname = "UnknownMethod"

\* the functions of the chain as <<position of the service, position of the declaration>>
ChainFunctions ==
  {ki \in (1..Len(Chain(tservice))) \X (1..MaxFuncs) :
     ki[2] <= Len(Chain(tservice)[ki[1]].functions)}
FunctionAt(ki) == Chain(tservice)[ki[1]].functions[ki[2]]

ArmsOrdered(within(_, _)) ==
  \A a, b \in 1..Len(Arms) :
    a < b => \/ within(Declarer(Arms[a].pattern), Declarer(Arms[b].pattern))
             \/ /\ Declarer(Arms[a].pattern) = Declarer(Arms[b].pattern)
                /\ DeclPos(Arms[a].pattern) < DeclPos(Arms[b].pattern)

\* C19 as claimed: the arms list the functions in declaration order within a
\* service, every ancestor's functions before those of the services extending it
C19_ParentsFirst ==
  pc = "dispatched" =>
    /\ Len(Arms) = Cardinality(ChainFunctions)
    /\ ArmsOrdered(LAMBDA ka, kb : ka > kb)

\* C19 amended: the arms list the functions in declaration order within a
\* service, the service's own functions first, then those of the service it
\* extends, and so on up the chain
C19_ChildrenFirst ==
  pc = "dispatched" =>
    /\ Len(Arms) = Cardinality(ChainFunctions)
    /\ ArmsOrdered(LAMBDA ka, kb : ka < kb)

\* a processor of a service that, like its parent, declares functions
C19_Witness ==
  /\ pc = "dispatched"
  /\ Len(Chain(tservice)) >= 2
  /\ \A k \in 1..Len(Chain(tservice)) : Len(Chain(tservice)[k].functions) >= 1
  /\ Len(Chain(tservice)[1].functions) >= 2
  /\ Arms[1].pattern = tservice.functions[1].name
  /\ invoked # <<>>

----------------------------------------------------------------------------
(* Properties of the generator run *)

Contains(hay, needle) ==
  \E i \in 1..(Len(hay) - Len(needle) + 1) : SubSeq(hay, i, i + Len(needle) - 1) = needle

IdlFunction == program0.service.functions[1]
\* the field names the IDL declares, and the name of the return value field,
\* which no IDL identifier stands behind
IdlFieldNames ==
  {program0.struct.members[i].name : i \in 1..Len(program0.struct.members)}
  \cup {IdlFunction.arglist.members[i].name : i \in 1..Len(IdlFunction.arglist.members)}
  \cup {IdlFunction.xceptions.members[i].name : i \in 1..Len(IdlFunction.xceptions.members)}
  \cup {ResultVariableName}

\* the identifier is the one the IDL has for the thing it names
AsInIdl(ident) ==
  CASE ident.what = "struct" -> ident.name = program0.struct.name
    [] ident.what = "field" -> ident.name \in IdlFieldNames
    [] ident.what \in {"message", "verify", "dispatch"} -> ident.name = IdlFunction.name
    [] ident.what = "args struct" -> ident.name = IdlFunction.arglist.name
    [] ident.what = "result struct" -> Contains(ident.name, IdlFunction.name)
    [] ident.what = "missing result" -> TRUE

\* C15: every struct, field and message header and every dispatch and
\* verification string of the emitted code carries the identifier as the IDL
\* writes it, never a camel or snake cased or suffixed one
C15_NamePreservation ==
  \A e \in emitted : \A i \in 1..Len(e.idents) : AsInIdl(e.idents[i])

\* C16: whatever has been generated, the IDL tree is as the parser built it
C16_TreeReadOnly == program = program0

\* C26: the message of the MissingResult error of ok_or is "no result
\* received for " followed by the name the IDL gives the function
C26_MissingResultName ==
  \A e \in emitted : \A i \in 1..Len(e.idents) :
    e.idents[i].what = "missing result"
      => e.idents[i].name = NoResultReceivedFor \o IdlFunction.name

----------------------------------------------------------------------------
(* Properties of the rendering of types *)

\* the Rust type of t is a Box: t is a forward typedef, or a typedef whose
\* alias (pub type <symbolic> = to_rust_type(target), generate_typedef) is one
RECURSIVE IsBox(_)
IsBox(t) ==
  to_rust_type(t).box \/ (is_typedef(t) /\ ~t.fwd /\ IsBox(t.args[1]))

\* the read of a value of type t, and of every element under it, is boxed
\* exactly where the Rust type is a Box
RECURSIVE Aligned(_, _)
Aligned(r, t) ==
  /\ r.boxed = IsBox(t)
  /\ \A i \in 1..Len(r.elems) : Aligned(r.elems[i], get_true_type(t).args[i])

\* C21: the read emitted for a type wraps the value in Box::new iff the Rust
\* type of the type is a Box, for the type and every element type under it
C21_BoxingAligned ==
  read_call # <<>> => (rust_type = to_rust_type(t_type) /\ Aligned(read_call, t_type))

\* the type of the constant under its typedefs
ConstKind == get_true_type(t_type).kind

----------------------------------------------------------------------------
(* Properties of rust_safe_field_id *)

AlphaNumeric(str) ==
  \A i \in 1..Len(str) :
    \/ \E d \in 1..10 : str[i] = DigitChars[d]
    \/ str[i] \in {"n", "e", "g"}

\* C22: the safe field id of a 32-bit id is its digits when it is not
\* negative and neg followed by the digits of |id| when it is, has letters and
\* digits only, and is shared by no two ids
C22_SafeFieldId ==
  safe_ids # <<>>
    => /\ \A i \in 1..2 :
            /\ safe_ids[i] = IF field_ids[i] >= 0 THEN to_string(field_ids[i])
                             ELSE <<"n", "e", "g">> \o magnitude_digits(field_ids[i])
            /\ AlphaNumeric(safe_ids[i])
       /\ field_ids[1] # field_ids[2] => safe_ids[1] # safe_ids[2]

----------------------------------------------------------------------------
(* Properties of the handler failure branches *)

\* the processor ran the handler of a function that is not oneway
Handled == ~tfunc.oneway /\ origin = "processed"
\* the handler failed with a user error of a type the function declares
DeclaredFailure ==
  /\ handler_ret.kind = "Err::User"
  /\ \E i \in 1..Len(tfunc.xceptions) : tfunc.xceptions[i].tname = handler_ret.tname
\* the one Exception message of the call that carries application error app_err
OneException(app_err) ==
  o_prot = <<Message(tfunc.name, "TMessageType::Exception", c_out[1].seq, app_err)>>

\* C23: for a function that is not oneway, a handler's application error is
\* answered by one Exception message with the incoming sequence number and
\* the IDL name that carries the error; any other error that is no declared
\* user exception by one Exception message that carries an Unknown
\* application error with the error's display string; no Reply is written
C23_HandlerErrorTriage ==
  Handled =>
    /\ handler_ret.kind = "Err::Application" => OneException(handler_ret.tname)
    /\ (handler_ret.kind \notin {"Ok", "Err::Application"} /\ ~DeclaredFailure)
         => OneException("Unknown: " \o error_to_string(handler_ret))

\* a handler failed with a user error of an undeclared type while the function
\* declares exceptions, and the Unknown application error was written
C23_Witness ==
  /\ Handled
  /\ handler_ret.kind = "Err::User" /\ ~DeclaredFailure
  /\ Len(tfunc.xceptions) > 0
  /\ o_prot # <<>>
  /\ o_prot[1].type = "TMessageType::Exception"

----------------------------------------------------------------------------
(* Properties of the derive attribute *)

DerivesDefault == \E i \in 1..Len(derives) : derives[i] = "Default"
AllOptionalInEffect == \A i \in Idx : is_optional(Req(i))

\* C24 as claimed: Default is derived iff every field of the struct is
\* optional or opt-in-req-out in effect, whatever the flavor: always for a
\* result struct, never for an args struct with a field
C24_DefaultByEffectiveReq ==
  derives # <<>> => (DerivesDefault <=> AllOptionalInEffect)

\* C24 as the code has it: Default is derived iff the struct is a regular
\* struct or an exception and every field is optional or opt-in-req-out;
\* never for an args or a result struct
C24_DefaultRegularOnly ==
  derives # <<>>
    => /\ DerivesDefault
            <=> (struct_type \in {"T_REGULAR", "T_EXCEPTION"} /\ AllOptionalInEffect)
       /\ derives = IF DerivesDefault
                    THEN <<"Clone", "Debug", "Default", "Eq", "Hash", "Ord", "PartialEq",
                           "PartialOrd">>
                    ELSE <<"Clone", "Debug", "Eq", "Hash", "Ord", "PartialEq", "PartialOrd">>

\* a result struct with an exception, all of its fields optional, was emitted
\* without Default
C24_Witness ==
  /\ struct_type = "T_RESULT" /\ Len(Members) > 0 /\ AllOptionalInEffect
  /\ derives # <<>> /\ ~DerivesDefault

----------------------------------------------------------------------------
(* Properties of the named pipe server *)

\* C27: cached_client_ and Pipe_ are read or written only by a thread that
\* holds pipe_protect_: no access without the lock is ever made
C27_LockDiscipline == unlocked = {}

\* the acceptImpl call that was blocked on a pending connect when interrupt ran
\* on a valid pipe handle has ended
WatchedEnded == watch.outcome # "none"

C29_ReturnedOnceAndRearmed ==
  /\ \A i, j \in DOMAIN returned : i # j => returned[i] # returned[j]
  /\ \A i \in DOMAIN returned : returned[i] # NoClient
  /\ a_client.client # NoClient => cached_client_ # a_client.client
  /\ accept_ret.kind = "client" /\ ~accept_ret.stopping
       => accept_ret.armed = {"pipe created", "connect queued"}

C29_Witness ==
  /\ Len(returned) >= 2
  /\ accept_ret.kind = "client"
  /\ ~accept_ret.stopping
  /\ counters.pipes >= 3

\* C30: stopping_ once set stays set, the cache is empty while it is set, no
\* step creates a pipe instance, queues a connect work item or fills the
\* cache while it is set, and acceptImpl takes no client from the cache
C30_StoppingPermanent ==
  /\ [](stopping_ => cached_client_ = NoClient)
  /\ [][stopping_ => /\ stopping_'
                     /\ counters'.pipes = counters.pipes
                     /\ Len(io') = Len(io)
                     /\ \A k \in DOMAIN workList' :
                          workList'[k] = "CONNECT"
                            => \E m \in DOMAIN workList : workList[m] = "CONNECT"
                     /\ cached_client_' = NoClient
                     /\ (a_pc = "locked" => a_client'.client = NoClient)]_vars

\* initiateNamedConnect has run and returned in an acceptImpl call made while
\* stopping_ was set
C30_Witness == stopping_ /\ a_pc = "ret" /\ armed = {}

====
